---- MODULE Spec2Model ----
(***************************************************************************)
(* State-machine model of the agent orchestration engine of               *)
(* openrouter-agent: the Agent class (run loop, safety gate, planning      *)
(* controller, plan execution, history persistence) together with the     *)
(* tool registry tables it consults.                                       *)
(*                                                                         *)
(* Text is modelled as a sequence of words (message contents, plan texts) *)
(* or of characters (answers typed at a prompt), so that searching,       *)
(* trimming and lower-casing are computed, not assumed.                   *)
(***************************************************************************)
EXTENDS Naturals, Integers, Sequences, FiniteSets, TLC

\* ------------------------------------------------------------------------
\* Bounds of the exploration
\* ------------------------------------------------------------------------

\* Two exploration profiles bound a behaviour.  The short profile lets the
\* model answer freely for a few turns; the long profile lets a run go past
\* the step ceiling with few turns that are not the plain nudged text.

\* run() / plan() / executePlan() calls in one behaviour
MaxOps == 2

\* model requests answered in one behaviour (short profile)
MaxTurns == 3

\* tool calls the model emits in one behaviour
MaxCalls == 2

\* model requests answered beyond two rounds of the step ceiling (long profile)
MaxExtraTurns == 1

\* model responses other than the plain nudged text (long profile)
MaxRichLong == 1

\* tool calls in one assistant turn
MaxBatch == 2

\* ------------------------------------------------------------------------
\* Program constants
\* ------------------------------------------------------------------------

maxSteps == 15

PlanMaxSteps == 10

MAX_HISTORY_MESSAGES == 50

MAX_CONTEXT_TOKENS == 100000

systemPromptReserve == 1500

MAX_TOOL_OUTPUT_HISTORY_CHARS == 1200

MAX_TOOL_OUTPUT_CONTEXT_CHARS == 6000

TruncationSuffixChars == 61

MessageOverheadTokens == 4

ContextTailKept == 8

SafetyLevels == {"full", "delete-only", "off"}

CRITICAL_TOOLS == {"delete_file", "execute_command"}

DANGEROUS_TOOLS ==
    {"execute_command", "delete_file", "write_file", "move_file", "edit_file",
     "edit_file_by_lines", "multi_edit_file", "insert_at_line"}

toolSchemas ==
    {"read_file", "read_file_with_lines", "write_file", "delete_file", "move_file",
     "get_file_info", "edit_file", "edit_file_by_lines", "multi_edit_file",
     "insert_at_line", "execute_command", "list_directory", "find_files",
     "search_files", "get_current_directory"}

availableTools ==
    {"read_file", "read_file_with_lines", "write_file", "delete_file", "move_file",
     "get_file_info", "edit_file", "edit_file_by_lines", "multi_edit_file",
     "insert_at_line", "execute_command", "list_directory", "find_files",
     "search_files", "get_current_directory"}

\* the read-only list with a writing tool slipped in
READ_ONLY_TOOL_NAMES_withWrite ==
    {"read_file", "read_file_with_lines", "list_directory", "find_files",
     "search_files", "get_file_info", "get_current_directory", "write_file"}

READ_ONLY_TOOL_NAMES ==
    {"read_file", "read_file_with_lines", "list_directory", "find_files",
     "search_files", "get_file_info", "get_current_directory"}

\* tool names whose display summary dereferences the parsed arguments
FormatToolCallDerefs ==
    {"write_file", "edit_file", "edit_file_by_lines", "execute_command", "read_file",
     "read_file_with_lines", "list_directory", "search_files", "find_files",
     "delete_file", "move_file"}

\* ------------------------------------------------------------------------
\* Inputs of the exploration
\* ------------------------------------------------------------------------

\* tool names the model emits: benign, dangerous, critical, the completion
\* signal (no schema is registered for it)
ModelToolNames == {"read_file", "write_file", "delete_file", "task_complete"}

\* what JSON.parse and the schema make of a call's arguments string
ArgKinds == {"valid", "invalid", "null", "badjson"}

\* lines typed at a yes/no prompt, as character sequences
Answers ==
    { <<"y">>, <<"Y">>, <<"y", "e", "s">>, <<" ", "Y", "E", "S", " ">>,
      <<>>, <<"n">>, <<"y", "e", "s", "!">>, <<" ">>, <<"y", " ", "e", "s">> }

\* lines typed at the free-text prompt
Replies == { <<>>, <<" ">>, <<"o", "k">> }

\* what the user types after the REPL prompt
UserInputs == { <<"do", "it">> }

\* task descriptions handed to plan()
Tasks == { <<>>, <<"t1">>, <<"t2">> }

\* assistant texts of a run turn
RunTexts == { <<>>, <<"done", "it">>, <<"shall", "I", "?">> }

\* assistant texts of a planning turn
PlanTexts ==
    { <<>>, <<"nothing">>, <<"EXECUTION", "PLAN", "a">>, <<"b", "Steps:">>,
      <<"PLAN", "EXECUTION">>, <<"EXECUTION", "x", "PLAN">>, <<"steps:">> }

\* ------------------------------------------------------------------------
\* Text helpers
\* ------------------------------------------------------------------------

\* String.prototype.includes over word sequences
Includes(text, pat) ==
    \E i \in 0..(Len(text) - Len(pat)) :
        \A j \in 1..Len(pat) : text[i + j] = pat[j]

toLowerCase(ch) ==
    CASE ch = "Y" -> "y"
      [] ch = "E" -> "e"
      [] ch = "S" -> "s"
      [] ch = "N" -> "n"
      [] OTHER -> ch

IsSpace(ch) == ch = " "

RECURSIVE trimStart(_)
trimStart(s) ==
    IF s # <<>> /\ IsSpace(Head(s)) THEN trimStart(Tail(s)) ELSE s

RECURSIVE trimEnd(_)
trimEnd(s) ==
    IF s # <<>> /\ IsSpace(s[Len(s)]) THEN trimEnd(SubSeq(s, 1, Len(s) - 1)) ELSE s

trim(s) == trimEnd(trimStart(s))

LowerAll(s) == [i \in 1..Len(s) |-> toLowerCase(s[i])]

\* the answer test accepting any line that starts with y after normalising
IsAffirmative_prefix(answer) ==
    LET normalized == trim(LowerAll(answer))
    IN  normalized # <<>> /\ Head(normalized) = "y"

\* the answer test of confirmDangerousAction and askContinue
IsAffirmative(answer) ==
    LET normalized == trim(LowerAll(answer))
    IN  normalized = <<"y">> \/ normalized = <<"y", "e", "s">>

\* characters of one word of content
WordChars(w) ==
    CASE w = "[truncated-for-history]" -> MAX_TOOL_OUTPUT_HISTORY_CHARS + TruncationSuffixChars
      [] w = "[truncated-for-context]" -> MAX_TOOL_OUTPUT_CONTEXT_CHARS + TruncationSuffixChars
      [] w = "[denied]" -> 101
      [] w = "[reminder]" -> 128
      [] w = "[text-3486]" -> 3486
      [] w = "[text-200k]" -> 200000
      [] w = "[text-400k]" -> 400000
      [] w = "[text-500k]" -> 500000
      [] OTHER -> 8

RECURSIVE ContentChars(_)
ContentChars(c) ==
    IF c = <<>> THEN 0 ELSE WordChars(Head(c)) + ContentChars(Tail(c))

\* ------------------------------------------------------------------------
\* Messages
\* ------------------------------------------------------------------------

\* absent tool-call id
NoId == 0

\* absent tool name
NoName == ""

\* a nullable field: None is null, Some(x) holds x
None == <<>>

Some(x) == <<x>>

\* JavaScript truthiness of a nullable string
Truthy(opt) == opt # None /\ opt[1] # <<>>

Msg(role, content, calls, id, name) ==
    [role |-> role, content |-> content, tool_calls |-> calls,
     tool_call_id |-> id, name |-> name]

SystemMsg(c) == Msg("system", c, <<>>, NoId, NoName)

UserMsg(c) == Msg("user", c, <<>>, NoId, NoName)

\* content '' is stored as null; both are the empty word sequence here
AssistantMsg(c, calls) == Msg("assistant", c, calls, NoId, NoName)

ToolMsg(id, name, c) == Msg("tool", c, <<>>, id, name)

\* tool result texts
DENIED == <<"[denied]">>

PARSE_ERROR == <<"Error:", "Invalid", "JSON", "arguments", "provided.", "Parse", "error">>

PLAN_PARSE_ERROR == <<"Error:", "Invalid", "JSON", "arguments">>

PLAN_BLOCKED == <<"Error:", "This", "tool", "is", "not", "available", "in", "planning", "mode.">>

REMINDER == <<"[reminder]">>

UnknownTool(name) == <<"Unknown", "tool:", name>>

ValidationFailed(name) == <<"Validation", "failed", "for", name>>

ToolNotFound(name) == <<"Error:", "Tool", name, "not", "found.">>

ToolFailed == <<"Tool", "execution", "failed", "unexpectedly:", "boom">>

PlanToolFailed == <<"Error:", "boom">>

ToolOk(name) == <<"ok", name>>

\* the output of a tool that returns a long text (a file of 400,000 characters)
ToolOkLarge == <<"[text-400k]">>

PLAN_MARKER_1 == <<"EXECUTION", "PLAN">>

PLAN_MARKER_2 == <<"Steps:">>

\* ------------------------------------------------------------------------
\* Context budget
\* ------------------------------------------------------------------------

\* Math.ceil(text.length / 3.5)
estimateTokens(chars) == (2 * chars + 6) \div 7

\* what the loop of estimateMessagesTokens adds for one message
estimateMessageTokens(msg) ==
    (IF msg.content # <<>> THEN estimateTokens(ContentChars(msg.content)) ELSE 0)
    + MessageOverheadTokens

\* the total of the loop over msgs[lo..hi]; the sum is taken by halves so
\* that a history of a hundred messages is summed at a depth of seven
RECURSIVE estimateRangeTokens(_, _, _)
estimateRangeTokens(msgs, lo, hi) ==
    IF lo > hi THEN 0
    ELSE IF lo = hi THEN estimateMessageTokens(msgs[lo])
    ELSE LET mid == (lo + hi) \div 2
         IN  estimateRangeTokens(msgs, lo, mid) + estimateRangeTokens(msgs, mid + 1, hi)

estimateMessagesTokens(msgs) == estimateRangeTokens(msgs, 1, Len(msgs))

CeilDiv(a, b) == (a + b - 1) \div b

Min(a, b) == IF a <= b THEN a ELSE b

Max(a, b) == IF a >= b THEN a ELSE b

\* trimToTokenLimit without the cap that keeps one message
trimToTokenLimit_noFloor(msgs, maxTokens) ==
    LET availableTokens == maxTokens - systemPromptReserve
        estimatedTokens == estimateMessagesTokens(msgs)
        excessTokens    == estimatedTokens - availableTokens
        messagesToRemove == CeilDiv(excessTokens * Len(msgs), estimatedTokens)
    IN  IF estimatedTokens <= availableTokens THEN msgs
        ELSE IF Len(msgs) = 0 \/ estimatedTokens = 0 THEN msgs
        ELSE SubSeq(msgs, messagesToRemove + 1, Len(msgs))

\* trimToTokenLimit rounding the quotient down
trimToTokenLimit_roundsDown(msgs, maxTokens) ==
    LET availableTokens == maxTokens - systemPromptReserve
        estimatedTokens == estimateMessagesTokens(msgs)
        excessTokens    == estimatedTokens - availableTokens
        messagesToRemove ==
            Min((excessTokens * Len(msgs)) \div estimatedTokens, Len(msgs) - 1)
    IN  IF estimatedTokens <= availableTokens THEN msgs
        ELSE IF Len(msgs) = 0 \/ estimatedTokens = 0 THEN msgs
        ELSE SubSeq(msgs, messagesToRemove + 1, Len(msgs))

trimToTokenLimit(msgs, maxTokens) ==
    LET availableTokens == maxTokens - systemPromptReserve
        estimatedTokens == estimateMessagesTokens(msgs)
        excessTokens    == estimatedTokens - availableTokens
        \* ceil(excess / (estimated / count)), in exact arithmetic
        messagesToRemove ==
            Min(CeilDiv(excessTokens * Len(msgs), estimatedTokens), Len(msgs) - 1)
    IN  IF estimatedTokens <= availableTokens THEN msgs
        ELSE IF Len(msgs) = 0 \/ estimatedTokens = 0 THEN msgs
        ELSE SubSeq(msgs, messagesToRemove + 1, Len(msgs))

truncateToolOutputForHistory(output) ==
    IF ContentChars(output) <= MAX_TOOL_OUTPUT_HISTORY_CHARS THEN output
    ELSE <<"[truncated-for-history]">>

truncateToolOutputForContext(output) ==
    IF ContentChars(output) <= MAX_TOOL_OUTPUT_CONTEXT_CHARS THEN output
    ELSE <<"[truncated-for-context]">>

\* the pass over the outgoing list at the head of every loop iteration
TruncateOlderToolOutputs(msgs) ==
    [i \in 1..Len(msgs) |->
        IF i <= Max(0, Len(msgs) - ContextTailKept) /\ msgs[i].role = "tool"
        THEN [msgs[i] EXCEPT !.content = truncateToolOutputForContext(@)]
        ELSE msgs[i]]

\* what saveHistory writes to the history file
SaveImage(history) ==
    LET toSave == SubSeq(history, Max(1, Len(history) - MAX_HISTORY_MESSAGES + 1), Len(history))
    IN  trimToTokenLimit(toSave, MAX_CONTEXT_TOKENS)

\* ------------------------------------------------------------------------
\* Registry and gate
\* ------------------------------------------------------------------------

\* validateToolArgs: a schema must be registered and the arguments must fit it
validateToolArgs(name, argKind) == name \in toolSchemas /\ argKind = "valid"

ValidationError(name) ==
    IF name \in toolSchemas THEN ValidationFailed(name) ELSE UnknownTool(name)

\* formatToolCall reads a property of the parsed arguments for the tools it
\* summarises; on JSON null that read raises a TypeError
formatToolCallThrows(name, argKind) ==
    argKind = "null" /\ name \in FormatToolCallDerefs

\* needsConfirmation with the 'full' level consulting the critical list only
needsConfirmation_critOnly(level, name) ==
    IF level = "full" /\ name \in CRITICAL_TOOLS THEN TRUE
    ELSE IF level = "delete-only" /\ name \in CRITICAL_TOOLS THEN TRUE
    ELSE FALSE

\* needsConfirmation with the 'delete-only' level consulting the dangerous list
needsConfirmation_dangerBoth(level, name) ==
    IF level = "full" /\ name \in DANGEROUS_TOOLS THEN TRUE
    ELSE IF level = "delete-only" /\ name \in DANGEROUS_TOOLS THEN TRUE
    ELSE FALSE

\* the needsConfirmation decision of the run loop
needsConfirmation(level, name) ==
    IF level = "full" /\ name \in DANGEROUS_TOOLS THEN TRUE
    ELSE IF level = "delete-only" /\ name \in CRITICAL_TOOLS THEN TRUE
    ELSE FALSE

\* the change-intent heuristic of the run loop, over words
appearsToAskQuestion(text) ==
    \/ Includes(text, <<"?">>)
    \/ Includes(text, <<"would", "you", "like">>)
    \/ Includes(text, <<"do", "you", "want">>)
    \/ Includes(text, <<"should", "i">>)
    \/ Includes(text, <<"shall", "i">>)
    \/ Includes(text, <<"let", "me", "know">>)
    \/ Includes(text, <<"please", "confirm">>)

\* the marker test looking for the first marker only
ContainsPlanMarker_firstOnly(text) ==
    text # <<>> /\ Includes(text, PLAN_MARKER_1)

ContainsPlanMarker(text) ==
    text # <<>> /\ (Includes(text, PLAN_MARKER_1) \/ Includes(text, PLAN_MARKER_2))

\* ------------------------------------------------------------------------
\* State
\* ------------------------------------------------------------------------

VARIABLES
    conversationHistory,   \* Agent.conversationHistory
    safetyLevel,           \* Agent._safetyLevel
    rl,                    \* Agent.rl is set
    pendingPlan,           \* Agent.pendingPlan (nullable)
    pendingPlanTask,       \* Agent.pendingPlanTask (nullable)
    currentState,          \* StatusDisplay.currentState
    historyFile,           \* messages last written to the history file
    pc,                    \* where the active run() / plan() is suspended
    messages,              \* local: the outgoing message list
    currentStepInSession,  \* local: step counter of run() / currentStep of plan()
    toolCalls,             \* local: assembled tool calls of the turn
    idx,                   \* local: position of the for-loop over toolCalls
    completed,             \* local: a task_complete call was processed
    confirmed,             \* local: id of the call the user approved
    task,                  \* parameter of plan()
    viaPlan,               \* run() was called by executePlan()
    opsLeft,               \* run / plan / executePlan calls the exploration still allows
    turnsLeft,             \* model responses the exploration still allows
    richLeft,              \* of which other than the plain nudged text
    callsLeft,             \* tool calls the model may still emit
    nextId,                \* next fresh tool-call id
    planCalls,             \* number of plan() calls so far
    pendingPlanOrigin,     \* plan() call that stored the pending plan
    executedPlans,         \* plan() calls whose plan executePlan has started
    requestsInRow          \* model requests since run start / last approval

agentVars ==
    <<conversationHistory, safetyLevel, rl, pendingPlan, pendingPlanTask,
      currentState, historyFile>>

localVars ==
    <<pc, messages, currentStepInSession, toolCalls, idx, completed, confirmed,
      task, viaPlan>>

envVars ==
    <<opsLeft, turnsLeft, richLeft, callsLeft, nextId, planCalls, pendingPlanOrigin,
      executedPlans, requestsInRow>>

\* State of the activations the component specifications exercise on their
\* own: one callWithRetry call, one pass over a response stream, one
\* trimToTokenLimit call.  The agent specification leaves them idle.
VARIABLES
    retryPc,               \* where callWithRetry is: idle, calling, waiting, returned, thrown;
                           \* then its caller: streamed, failed
    retryIndex,            \* callWithRetry: the loop variable i
    caught,                \* callWithRetry: the errors caught so far, in order
    delays,                \* callWithRetry: the delays waited so far, in ms
    rethrown,              \* callWithRetry: the error thrown to the caller (nullable)
    streamErrors,          \* statuses of the errors the response stream has raised
    streamPc,              \* where the for-await loop is: idle, reading, ended, raised
    chunks,                \* the chunks the stream has still to deliver
    streamInput,           \* the chunks of the whole stream
    fullContent,           \* for-await local: the accumulated text
    streamToolCalls,       \* for-await local: toolCalls
    trimPc,                \* where trimToTokenLimit is: idle, called, returned
    trimInput,             \* trimToTokenLimit: the messages argument
    trimOutput,            \* trimToTokenLimit: the returned list
    trimHistory,           \* prepareMessagesForAPI: this.conversationHistory
    trimRemoved,           \* messages the calls so far have removed
    livePc,                \* where the turn of the renderer component is: idle,
                           \* reading, tools, finished, failed
    isTTY,                 \* process.stdout.isTTY
    uiStreaming,           \* UI.streaming
    liveChunksLeft,        \* chunks the stream may still deliver
    liveContent,           \* for-await local: content deltas in fullContent
    liveToolCalls,         \* for-await local: toolCalls.length
    streamStarted,         \* for-await local
    hasToolCalls,          \* for-await local
    assistantContentRendered, \* for-await local
    live,                  \* the LiveAssistantRenderer of the turn
    screen,                \* what the renderer has drawn last (nullable)
    finalFlushes,          \* flushes done by live.done()
    lateRedraws,           \* redraws that happened after the stream was over
    now,                   \* Date.now(), in milliseconds
    redraws,               \* the redraws of the renderer, in order
    liveTicksLeft,         \* advances of the clock still to come
    consoleLog,            \* the texts console.log(renderAssistantMarkdown(..))
                           \* has printed in the turn, in order
    replPc,                \* where the REPL is: idle, asking, running, shutdown
    runAt,                 \* what the run awaits: none, request, tool, prompt
    runPrompt,             \* the prompt the run awaits an answer to, or none
    questionCallback,      \* the question pending on the readline interface
    sigintPc,              \* the SIGINT handler: none, saving
    processExited,         \* process.exit was called
    rlClosed,              \* rl.close was called
    shutdownSaved,         \* gracefulShutdown has written the history
    abortedStep,           \* the step in flight when the process exited
    lineLog,               \* the input lines so far: who consumed each
    replStepsLeft,         \* suspensions the run may still reach
    totalTokens,           \* Agent.totalTokens
    historyLength,         \* Agent.conversationHistory.length
    agentSafetyLevel,      \* Agent._safetyLevel in the session component
    UI,                    \* the module-level UI configuration
    cycleReturned,         \* what the last cycleSafetyLevel call returned (nullable)
    levelTrail,            \* the level at the start and after each cycle call
    tokensBefore,          \* Agent.totalTokens before the last operation
    sessionOpsLeft,        \* operations the session may still perform
    fsLog,                 \* what the tool functions have done on the filesystem
    toolMode,              \* who dispatches the tool calls: run or plan
    toolCallsLeft          \* tool calls still to be dispatched

retryVars == <<retryPc, retryIndex, caught, delays, rethrown, streamErrors>>

streamVars == <<streamPc, chunks, streamInput, fullContent, streamToolCalls>>

trimVars == <<trimPc, trimInput, trimOutput, trimHistory, trimRemoved>>

liveVars ==
    <<livePc, isTTY, uiStreaming, liveChunksLeft, liveContent, liveToolCalls,
      streamStarted, hasToolCalls, assistantContentRendered, live, screen,
      finalFlushes, lateRedraws, now, redraws, liveTicksLeft, consoleLog>>

replVars ==
    <<replPc, runAt, runPrompt, questionCallback, sigintPc, processExited,
      rlClosed, shutdownSaved, abortedStep, lineLog, replStepsLeft>>

sessionVars ==
    <<totalTokens, historyLength, agentSafetyLevel, UI, cycleReturned, levelTrail,
      tokensBefore, sessionOpsLeft>>

toolVars == <<fsLog, toolMode, toolCallsLeft>>

harnessVars ==
    <<retryVars, streamVars, trimVars, liveVars, replVars, sessionVars, toolVars>>

mainVars == <<agentVars, localVars, envVars>>

vars == <<mainVars, harnessVars>>

\* what an action of one component leaves alone
retryFrame == <<mainVars, streamVars, trimVars, liveVars, replVars, sessionVars, toolVars>>

streamFrame == <<mainVars, retryVars, trimVars, liveVars, replVars, sessionVars, toolVars>>

trimFrame == <<mainVars, retryVars, streamVars, liveVars, replVars, sessionVars, toolVars>>

liveFrame == <<mainVars, retryVars, streamVars, trimVars, replVars, sessionVars, toolVars>>

replFrame == <<mainVars, retryVars, streamVars, trimVars, liveVars, sessionVars, toolVars>>

sessionFrame == <<mainVars, retryVars, streamVars, trimVars, liveVars, replVars, toolVars>>

toolFrame ==
    <<mainVars, retryVars, streamVars, trimVars, liveVars, replVars, sessionVars>>

RetryIdle ==
    /\ retryPc = "idle"
    /\ retryIndex = 0
    /\ caught = <<>>
    /\ delays = <<>>
    /\ rethrown = <<>>
    /\ streamErrors = <<>>

StreamIdle ==
    /\ streamPc = "idle"
    /\ chunks = <<>>
    /\ streamInput = <<>>
    /\ fullContent = <<>>
    /\ streamToolCalls = <<>>

TrimIdle ==
    /\ trimPc = "idle"
    /\ trimInput = <<>>
    /\ trimOutput = <<>>
    /\ trimHistory = <<>>
    /\ trimRemoved = 0

\* new LiveAssistantRenderer(...): the fields after construction
\* timers holds the due times of the setTimeout callbacks of update() that
\* are pending; scheduled tells that this.scheduled holds the newest of them
NewRenderer ==
    [active |-> FALSE, scheduled |-> FALSE, latestMarkdown |-> 0,
     lastRenderAt |-> 0, timers |-> <<>>]

\* throttleMs of the renderer of run()
throttleMs == 60

LiveIdle ==
    /\ livePc = "idle"
    /\ isTTY = TRUE
    /\ uiStreaming = "live"
    /\ liveChunksLeft = 0
    /\ liveContent = 0
    /\ liveToolCalls = 0
    /\ streamStarted = FALSE
    /\ hasToolCalls = FALSE
    /\ assistantContentRendered = FALSE
    /\ live = NewRenderer
    /\ screen = None
    /\ finalFlushes = 0
    /\ lateRedraws = 0
    /\ now = throttleMs
    /\ redraws = <<>>
    /\ liveTicksLeft = 0
    /\ consoleLog = <<>>

ReplIdle ==
    /\ replPc = "idle"
    /\ runAt = "none"
    /\ runPrompt = "none"
    /\ questionCallback = "none"
    /\ sigintPc = "none"
    /\ processExited = FALSE
    /\ rlClosed = FALSE
    /\ shutdownSaved = FALSE
    /\ abortedStep = "none"
    /\ lineLog = <<>>
    /\ replStepsLeft = 0

\* a JavaScript number: finite (held in tenths), NaN, +Infinity, -Infinity
Finite(tenths) == [kind |-> "finite", v |-> tenths]

NaN == [kind |-> "nan", v |-> 0]

PosInfinity == [kind |-> "+inf", v |-> 0]

NegInfinity == [kind |-> "-inf", v |-> 0]

\* DEFAULT_UI.maxWidth
DefaultMaxWidth == 92

DEFAULT_UI ==
    [maxWidth |-> Finite(10 * DefaultMaxWidth), markdown |-> TRUE,
     streaming |-> "live", showLegendOnStartup |-> FALSE]

NoTokens == [input |-> 0, output |-> 0]

SessionIdle ==
    /\ totalTokens = NoTokens
    /\ historyLength = 0
    /\ agentSafetyLevel = "full"
    /\ UI = DEFAULT_UI
    /\ cycleReturned = None
    /\ levelTrail = <<>>
    /\ tokensBefore = NoTokens
    /\ sessionOpsLeft = 0

ToolsIdle ==
    /\ fsLog = {}
    /\ toolMode = "run"
    /\ toolCallsLeft = 0

hasPendingPlan == pendingPlan # None

getPendingPlan ==
    IF Truthy(pendingPlan) /\ Truthy(pendingPlanTask)
    THEN Some([plan |-> pendingPlan[1], task |-> pendingPlanTask[1]])
    ELSE None

RunPcs == {"request", "tool", "confirm", "exec", "askUser", "askSimple", "askContinue"}

PlanPcs == {"plan_request", "plan_tool", "plan_exec"}

\* the call the for-loop is at
CurrentCall == toolCalls[idx]

InitAgent ==
    /\ conversationHistory = <<>>
    /\ safetyLevel \in SafetyLevels
    /\ rl = TRUE
    /\ pendingPlan = None
    /\ pendingPlanTask = None
    /\ currentState = "idle"
    /\ historyFile = <<>>
    /\ pc = "idle"
    /\ messages = <<>>
    /\ currentStepInSession = 0
    /\ toolCalls = <<>>
    /\ idx = 0
    /\ completed = FALSE
    /\ confirmed = NoId
    /\ task = None
    /\ viaPlan = FALSE
    /\ nextId = 1
    /\ planCalls = 0
    /\ pendingPlanOrigin = 0
    /\ executedPlans = {}
    /\ requestsInRow = 0

Profiles ==
    { [ops |-> MaxOps, turns |-> MaxTurns, rich |-> MaxTurns, calls |-> MaxCalls],
      [ops |-> 1, turns |-> 2 * maxSteps + MaxExtraTurns, rich |-> MaxRichLong,
       calls |-> 1] }

Init ==
    /\ InitAgent
    /\ RetryIdle /\ StreamIdle /\ TrimIdle /\ LiveIdle
    /\ ReplIdle /\ SessionIdle /\ ToolsIdle
    /\ \E p \in Profiles :
          /\ opsLeft = p.ops
          /\ turnsLeft = p.turns
          /\ richLeft = p.rich
          /\ callsLeft = p.calls

\* ------------------------------------------------------------------------
\* Returning from run() / plan()
\* ------------------------------------------------------------------------

\* the locals die with the call
DropLocals ==
    /\ pc' = "idle"
    /\ messages' = <<>>
    /\ currentStepInSession' = 0
    /\ toolCalls' = <<>>
    /\ idx' = 0
    /\ completed' = FALSE
    /\ confirmed' = NoId
    /\ task' = None
    /\ viaPlan' = FALSE
    /\ requestsInRow' = 0

\* break out of the run loop: saveHistory, then return
RunExit(history, state) ==
    /\ DropLocals
    /\ conversationHistory' = history
    /\ currentState' = state
    /\ historyFile' = SaveImage(history)

\* the loop head with the ceiling test off by one
RunLoopHead_lateCeiling(step, msgs) ==
    /\ messages' = TruncateOlderToolOutputs(msgs)
    /\ currentStepInSession' = step + 1
    /\ IF step + 1 > maxSteps + 1
       THEN /\ pc' = "askContinue"
            /\ UNCHANGED requestsInRow
       ELSE /\ pc' = "request"
            /\ requestsInRow' = requestsInRow + 1

\* the loop head without the ceiling test
RunLoopHead_noCeiling(step, msgs) ==
    /\ messages' = TruncateOlderToolOutputs(msgs)
    /\ currentStepInSession' = step + 1
    /\ pc' = "request"
    /\ requestsInRow' = requestsInRow + 1

\* head of the run loop up to the next suspension: count the step, shorten
\* older tool outputs, then either ask to continue or issue the request
RunLoopHead(step, msgs) ==
    /\ messages' = TruncateOlderToolOutputs(msgs)
    /\ currentStepInSession' = step + 1
    /\ IF step + 1 > maxSteps
       THEN /\ pc' = "askContinue"
            /\ UNCHANGED requestsInRow
       ELSE /\ pc' = "request"
            /\ requestsInRow' = requestsInRow + 1

cfgVars == <<safetyLevel, rl, pendingPlan, pendingPlanTask>>

budgetVars == <<opsLeft, turnsLeft, richLeft, callsLeft>>

planGhosts == <<planCalls, pendingPlanOrigin, executedPlans>>

\* after the result of the current call is recorded: next call of the batch,
\* or the end of the batch (completion check, else next loop iteration)
NextCall(msgs, history, comp, state) ==
    IF idx < Len(toolCalls)
    THEN /\ idx' = idx + 1
         /\ pc' = "tool"
         /\ messages' = msgs
         /\ conversationHistory' = history
         /\ completed' = comp
         /\ confirmed' = NoId
         /\ currentState' = state
         /\ UNCHANGED <<currentStepInSession, toolCalls, task, viaPlan,
                        requestsInRow, historyFile>>
    ELSE IF comp
    THEN RunExit(history, "complete")
    ELSE /\ RunLoopHead(currentStepInSession, msgs)
         /\ conversationHistory' = history
         /\ currentState' = state
         /\ toolCalls' = <<>>
         /\ idx' = 0
         /\ completed' = FALSE
         /\ confirmed' = NoId
         /\ UNCHANGED <<task, viaPlan, historyFile>>

\* FinishCall that never notes the completion signal
FinishCall_noCompletion(output, state) ==
    LET tc == CurrentCall
    IN  NextCall(Append(messages, ToolMsg(tc.id, tc.name, output)),
                 Append(conversationHistory,
                        ToolMsg(tc.id, tc.name, truncateToolOutputForHistory(output))),
                 completed,
                 state)

\* FinishCall that records the result in the outgoing list only
FinishCall_noHistory(output, state) ==
    LET tc == CurrentCall
    IN  NextCall(Append(messages, ToolMsg(tc.id, tc.name, output)),
                 conversationHistory,
                 completed \/ tc.name = "task_complete",
                 state)

\* record the tool result in the outgoing list (full) and in the history
\* (shortened), note a completion signal, go on
FinishCall(output, state) ==
    LET tc == CurrentCall
    IN  NextCall(Append(messages, ToolMsg(tc.id, tc.name, output)),
                 Append(conversationHistory,
                        ToolMsg(tc.id, tc.name, truncateToolOutputForHistory(output))),
                 completed \/ tc.name = "task_complete",
                 state)

\* prepareMessagesForAPI: trim the history, keep the trimmed copy
prepareMessagesForAPI(history) ==
    trimToTokenLimit(history, MAX_CONTEXT_TOKENS)

\* run(userInput) up to its first model request
StartRun(userInput, fromPlan) ==
    LET pushed  == Append(conversationHistory, UserMsg(userInput))
        trimmed == prepareMessagesForAPI(pushed)
    IN  /\ pc = "idle"
        /\ opsLeft > 0 /\ turnsLeft > 0
        /\ opsLeft' = opsLeft - 1
        /\ conversationHistory' = trimmed
        /\ RunLoopHead(0, <<SystemMsg(<<"system", "prompt">>)>> \o trimmed)
        /\ toolCalls' = <<>>
        /\ idx' = 0
        /\ completed' = FALSE
        /\ confirmed' = NoId
        /\ task' = None
        /\ viaPlan' = fromPlan
        /\ UNCHANGED <<safetyLevel, rl, currentState, historyFile, turnsLeft, richLeft,
                       callsLeft, nextId>>

\* the REPL hands a line to run()
Run(userInput) ==
    /\ StartRun(userInput, FALSE)
    /\ UNCHANGED <<pendingPlan, pendingPlanTask, planGhosts>>
    /\ UNCHANGED harnessVars

\* the failed request leaving the run without writing the history file
RunModelFails_noSave ==
    /\ pc = "request"
    /\ turnsLeft > 0 /\ richLeft > 0
    /\ turnsLeft' = turnsLeft - 1
    /\ richLeft' = richLeft - 1
    /\ DropLocals
    /\ currentState' = "error"
    /\ UNCHANGED <<conversationHistory, historyFile>>
    /\ UNCHANGED <<cfgVars, opsLeft, callsLeft, nextId, planGhosts>>
    /\ UNCHANGED harnessVars

\* the model request fails for good: callWithRetry rethrows, the catch of the
\* turn sets the error state and breaks, the history is saved
RunModelFails ==
    /\ pc = "request"
    /\ turnsLeft > 0 /\ richLeft > 0
    /\ turnsLeft' = turnsLeft - 1
    /\ richLeft' = richLeft - 1
    /\ RunExit(conversationHistory, "error")
    /\ UNCHANGED <<cfgVars, opsLeft, callsLeft, nextId, planGhosts>>
    /\ UNCHANGED harnessVars

\* the stream failure handled after the partial turn was recorded and its
\* first call taken up
RunStreamFails_keepsPartial(text, names) ==
    LET calls == [i \in 1..Len(names) |-> [id |-> nextId + i - 1, name |-> names[i]]]
        assistantMessage == AssistantMsg(text, calls)
    IN  /\ pc = "request"
        /\ turnsLeft > 0 /\ richLeft > 0 /\ Len(names) <= callsLeft
        /\ turnsLeft' = turnsLeft - 1
        /\ richLeft' = richLeft - 1
        /\ callsLeft' = callsLeft - Len(names)
        /\ nextId' = nextId + Len(names)
        /\ IF names = <<>>
           THEN RunExit(Append(conversationHistory, assistantMessage), "error")
           ELSE /\ messages' = Append(messages, assistantMessage)
                /\ conversationHistory' = Append(conversationHistory, assistantMessage)
                /\ currentState' = "error"
                /\ toolCalls' = calls
                /\ idx' = 1
                /\ completed' = FALSE
                /\ confirmed' = NoId
                /\ pc' = "tool"
                /\ UNCHANGED <<historyFile, currentStepInSession, task, viaPlan,
                               requestsInRow>>
        /\ UNCHANGED <<cfgVars, opsLeft, planGhosts>>
        /\ UNCHANGED harnessVars

\* the response stream raises after the deltas of text and of the calls names
\* were received: fullContent and toolCalls are locals of the try block and die
\* with it, the catch of the turn sets the error state and breaks
RunStreamFails(text, names) ==
    /\ pc = "request"
    /\ turnsLeft > 0 /\ richLeft > 0 /\ Len(names) <= callsLeft
    /\ turnsLeft' = turnsLeft - 1
    /\ richLeft' = richLeft - 1
    /\ callsLeft' = callsLeft - Len(names)
    /\ nextId' = nextId + Len(names)
    /\ RunExit(conversationHistory, "error")
    /\ UNCHANGED <<cfgVars, opsLeft, planGhosts>>
    /\ UNCHANGED harnessVars

\* the text turn going on without the reminder
RunModelText_noReminder(text) ==
    LET assistantMessage == AssistantMsg(text, <<>>)
        history == Append(conversationHistory, assistantMessage)
        msgs    == Append(messages, assistantMessage)
        rich    == text # <<"done", "it">>
        state   == IF text # <<>> THEN "streaming" ELSE "thinking"
    IN  /\ pc = "request"
        /\ turnsLeft > 0 /\ (rich => richLeft > 0)
        /\ turnsLeft' = turnsLeft - 1
        /\ richLeft' = IF rich THEN richLeft - 1 ELSE richLeft
        /\ conversationHistory' = history
        /\ currentState' = state
        /\ IF appearsToAskQuestion(trim(text))
           THEN /\ pc' = "askSimple"
                /\ messages' = msgs
                /\ UNCHANGED <<currentStepInSession, requestsInRow>>
           ELSE RunLoopHead(currentStepInSession, msgs)
        /\ UNCHANGED <<cfgVars, historyFile, toolCalls, idx, completed, confirmed,
                       task, viaPlan, opsLeft, callsLeft, nextId, planGhosts>>
        /\ UNCHANGED harnessVars

\* the turn yields text and no tool call
RunModelText(text) ==
    LET assistantMessage == AssistantMsg(text, <<>>)
        history == Append(conversationHistory, assistantMessage)
        msgs    == Append(messages, assistantMessage)
        rich    == text # <<"done", "it">>
        state   == IF text # <<>> THEN "streaming" ELSE "thinking"
    IN  /\ pc = "request"
        /\ turnsLeft > 0 /\ (rich => richLeft > 0)
        /\ turnsLeft' = turnsLeft - 1
        /\ richLeft' = IF rich THEN richLeft - 1 ELSE richLeft
        /\ conversationHistory' = history
        /\ currentState' = state
        /\ IF appearsToAskQuestion(trim(text))
           THEN /\ pc' = "askSimple"
                /\ messages' = msgs
                /\ UNCHANGED <<currentStepInSession, requestsInRow>>
           ELSE RunLoopHead(currentStepInSession, Append(msgs, SystemMsg(REMINDER)))
        /\ UNCHANGED <<cfgVars, historyFile, toolCalls, idx, completed, confirmed,
                       task, viaPlan, opsLeft, callsLeft, nextId, planGhosts>>
        /\ UNCHANGED harnessVars

\* the turn yields tool calls (with or without text)
RunModelToolCalls(names, text) ==
    LET calls == [i \in 1..Len(names) |-> [id |-> nextId + i - 1, name |-> names[i]]]
        assistantMessage == AssistantMsg(text, calls)
    IN  /\ pc = "request"
        /\ turnsLeft > 0 /\ richLeft > 0 /\ Len(names) <= callsLeft
        /\ turnsLeft' = turnsLeft - 1
        /\ richLeft' = richLeft - 1
        /\ callsLeft' = callsLeft - Len(names)
        /\ nextId' = nextId + Len(names)
        /\ messages' = Append(messages, assistantMessage)
        /\ conversationHistory' = Append(conversationHistory, assistantMessage)
        /\ currentState' = IF text # <<>> THEN "streaming" ELSE "thinking"
        /\ toolCalls' = calls
        /\ idx' = 1
        /\ completed' = FALSE
        /\ confirmed' = NoId
        /\ pc' = "tool"
        /\ UNCHANGED <<cfgVars, historyFile, currentStepInSession, task, viaPlan,
                       requestsInRow, opsLeft, planGhosts>>
        /\ UNCHANGED harnessVars

\* the parse failure leaving the for-loop instead of continuing it
ParseFailure_breaks ==
    LET tc == CurrentCall
        toolMessage == ToolMsg(tc.id, tc.name, PARSE_ERROR)
    IN  /\ RunLoopHead(currentStepInSession, Append(messages, toolMessage))
        /\ conversationHistory' = Append(conversationHistory, toolMessage)
        /\ toolCalls' = <<>>
        /\ idx' = 0
        /\ completed' = FALSE
        /\ confirmed' = NoId
        /\ UNCHANGED <<currentState, task, viaPlan, historyFile>>

\* JSON.parse of the arguments string throws: one message object goes to both
\* lists and the for-loop continues with the next call
ParseFailure ==
    LET tc == CurrentCall
        toolMessage == ToolMsg(tc.id, tc.name, PARSE_ERROR)
    IN  NextCall(Append(messages, toolMessage),
                 Append(conversationHistory, toolMessage),
                 completed, currentState)

\* one pass of the for-loop body up to its first suspension or its end
RunToolStep(argKind) ==
    LET tc == CurrentCall
        functionName == tc.name
    IN  /\ pc = "tool"
        /\ UNCHANGED <<cfgVars, budgetVars, nextId, planGhosts>>
        /\ IF argKind = "badjson"
           THEN ParseFailure
           ELSE IF formatToolCallThrows(functionName, argKind)
           THEN \* the TypeError leaves the for-loop and reaches the catch of the turn
                RunExit(conversationHistory, "error")
           ELSE IF ~validateToolArgs(functionName, argKind)
           THEN FinishCall(ValidationError(functionName), currentState)
           ELSE IF functionName = "ask_user"
           THEN \* not reachable: no schema is registered for ask_user
                /\ pc' = "askUser"
                /\ currentState' = "waiting"
                /\ UNCHANGED <<conversationHistory, historyFile, messages,
                               currentStepInSession, toolCalls, idx, completed,
                               confirmed, task, viaPlan, requestsInRow>>
           ELSE IF functionName \in availableTools
           THEN IF needsConfirmation(safetyLevel, functionName)
                THEN /\ pc' = "confirm"
                     /\ UNCHANGED <<conversationHistory, historyFile, currentState,
                                    messages, currentStepInSession, toolCalls, idx,
                                    completed, confirmed, task, viaPlan, requestsInRow>>
                ELSE \* auto-approved: the tool function is called
                     /\ pc' = "exec"
                     /\ currentState' = "executing"
                     /\ UNCHANGED <<conversationHistory, historyFile, messages,
                                    currentStepInSession, toolCalls, idx, completed,
                                    confirmed, task, viaPlan, requestsInRow>>
           ELSE FinishCall(ToolNotFound(functionName), currentState)
        /\ UNCHANGED harnessVars

\* the user answers the confirmation prompt
ConfirmAnswer(answer) ==
    /\ pc = "confirm"
    /\ UNCHANGED <<cfgVars, budgetVars, nextId, planGhosts>>
    /\ IF ~rl
       THEN \* confirmDangerousAction throws; the catch of the turn ends the run
            RunExit(conversationHistory, "error")
       ELSE IF IsAffirmative(answer)
       THEN /\ confirmed' = CurrentCall.id
            /\ pc' = "exec"
            /\ currentState' = "executing"
            /\ UNCHANGED <<conversationHistory, historyFile, messages,
                           currentStepInSession, toolCalls, idx, completed, task,
                           viaPlan, requestsInRow>>
       ELSE FinishCall(DENIED, currentState)
    /\ UNCHANGED harnessVars

\* the tool invocation without its try/catch: the exception reaches the catch
\* of the turn
ToolReturn_uncaught(throws) ==
    /\ pc = "exec"
    /\ UNCHANGED <<cfgVars, budgetVars, nextId, planGhosts>>
    /\ IF throws
       THEN RunExit(conversationHistory, "error")
       ELSE FinishCall(ToolOk(CurrentCall.name), "executing")
    /\ UNCHANGED harnessVars

\* the invoked tool function settles
ToolReturn(throws) ==
    /\ pc = "exec"
    /\ UNCHANGED <<cfgVars, budgetVars, nextId, planGhosts>>
    /\ FinishCall(IF throws THEN ToolFailed ELSE ToolOk(CurrentCall.name), "executing")
    /\ UNCHANGED harnessVars

\* the invoked tool function resolves with a long text
ToolReturnsLarge ==
    /\ pc = "exec"
    /\ UNCHANGED <<cfgVars, budgetVars, nextId, planGhosts>>
    /\ FinishCall(ToolOkLarge, "executing")
    /\ UNCHANGED harnessVars

\* the user answers the free-text prompt after a question-like text
AskSimple(reply) ==
    /\ pc = "askSimple"
    /\ UNCHANGED <<cfgVars, budgetVars, nextId, planGhosts>>
    /\ IF ~rl
       THEN RunExit(conversationHistory, "error")
       ELSE IF trim(reply) # <<>>
       THEN /\ conversationHistory' = Append(conversationHistory, UserMsg(reply))
            /\ RunLoopHead(currentStepInSession, Append(messages, UserMsg(reply)))
            /\ UNCHANGED <<currentState, historyFile, toolCalls, idx, completed,
                           confirmed, task, viaPlan>>
       ELSE RunExit(conversationHistory, "complete")
    /\ UNCHANGED harnessVars

\* the user answers the continuation prompt
AskContinue(answer) ==
    /\ pc = "askContinue"
    /\ UNCHANGED <<cfgVars, budgetVars, nextId, planGhosts>>
    /\ IF ~rl
       THEN \* askContinue throws outside the try: run() rejects, nothing is saved
            /\ DropLocals
            /\ UNCHANGED <<conversationHistory, currentState, historyFile>>
       ELSE IF IsAffirmative(answer)
       THEN /\ currentStepInSession' = 1
            /\ pc' = "request"
            /\ requestsInRow' = 1
            /\ UNCHANGED <<conversationHistory, currentState, historyFile, messages,
                           toolCalls, idx, completed, confirmed, task, viaPlan>>
       ELSE RunExit(conversationHistory, currentState)
    /\ UNCHANGED harnessVars

\* ------------------------------------------------------------------------
\* Planning controller
\* ------------------------------------------------------------------------

clearPlan ==
    /\ pendingPlan' = None
    /\ pendingPlanTask' = None
    /\ pendingPlanOrigin' = 0

\* plan() returns; nothing is saved
PlanReturn(state) ==
    /\ currentState' = state
    /\ DropLocals

\* the loop of plan() without its step limit
PlanLoopHead_noLimit(step, msgs, state) ==
    /\ currentStepInSession' = step + 1
    /\ messages' = msgs
    /\ pc' = "plan_request"
    /\ currentState' = state
    /\ toolCalls' = <<>>
    /\ idx' = 0
    /\ UNCHANGED <<completed, confirmed, task, viaPlan, requestsInRow>>

\* the while test of plan() and, when it holds, the next request
PlanLoopHead(step, msgs, state) ==
    IF step < PlanMaxSteps
    THEN /\ currentStepInSession' = step + 1
         /\ messages' = msgs
         /\ pc' = "plan_request"
         /\ currentState' = state
         /\ toolCalls' = <<>>
         /\ idx' = 0
         /\ UNCHANGED <<completed, confirmed, task, viaPlan, requestsInRow>>
    ELSE PlanReturn(state)

PlanNextCall(msgs, state) ==
    IF idx < Len(toolCalls)
    THEN /\ idx' = idx + 1
         /\ pc' = "plan_tool"
         /\ messages' = msgs
         /\ currentState' = state
         /\ UNCHANGED <<currentStepInSession, toolCalls, completed, confirmed, task,
                        viaPlan, requestsInRow>>
    ELSE PlanLoopHead(currentStepInSession, msgs, state)

PlanFinishCall(output, state) ==
    PlanNextCall(Append(messages, ToolMsg(CurrentCall.id, CurrentCall.name, output)), state)

\* plan() that forgets to clear the previous plan
Plan_keepsOld(t) ==
    /\ pc = "idle"
    /\ opsLeft > 0 /\ turnsLeft > 0 /\ richLeft > 0
    /\ opsLeft' = opsLeft - 1
    /\ UNCHANGED <<pendingPlan, pendingPlanTask, pendingPlanOrigin>>
    /\ planCalls' = planCalls + 1
    /\ task' = Some(t)
    /\ completed' = FALSE
    /\ confirmed' = NoId
    /\ viaPlan' = FALSE
    /\ requestsInRow' = 0
    /\ currentStepInSession' = 1
    /\ messages' = << SystemMsg(<<"planning", "prompt">> \o t),
                      UserMsg(<<"Please", "analyze", "and", "plan:">> \o t) >>
    /\ pc' = "plan_request"
    /\ toolCalls' = <<>>
    /\ idx' = 0
    /\ UNCHANGED <<conversationHistory, safetyLevel, rl, currentState, historyFile,
                   turnsLeft, richLeft, callsLeft, nextId, executedPlans>>
    /\ UNCHANGED harnessVars

\* plan(task) up to its first model request
Plan(t) ==
    /\ pc = "idle"
    /\ opsLeft > 0 /\ turnsLeft > 0 /\ richLeft > 0
    /\ opsLeft' = opsLeft - 1
    /\ clearPlan
    /\ planCalls' = planCalls + 1
    /\ task' = Some(t)
    /\ completed' = FALSE
    /\ confirmed' = NoId
    /\ viaPlan' = FALSE
    /\ requestsInRow' = 0
    /\ currentStepInSession' = 1
    /\ messages' = << SystemMsg(<<"planning", "prompt">> \o t),
                      UserMsg(<<"Please", "analyze", "and", "plan:">> \o t) >>
    /\ pc' = "plan_request"
    /\ toolCalls' = <<>>
    /\ idx' = 0
    /\ UNCHANGED <<conversationHistory, safetyLevel, rl, currentState, historyFile,
                   turnsLeft, richLeft, callsLeft, nextId, executedPlans>>
    /\ UNCHANGED harnessVars

PlanModelFails ==
    /\ pc = "plan_request"
    /\ turnsLeft > 0 /\ richLeft > 0
    /\ turnsLeft' = turnsLeft - 1
    /\ richLeft' = richLeft - 1
    /\ PlanReturn("error")
    /\ UNCHANGED <<conversationHistory, historyFile, cfgVars, opsLeft, callsLeft,
                   nextId, planGhosts>>
    /\ UNCHANGED harnessVars

\* the planning turn recording its text in the history and saving it, as a
\* turn of run() does
PlanModelText_records(text) ==
    /\ pc = "plan_request"
    /\ turnsLeft > 0 /\ richLeft > 0
    /\ turnsLeft' = turnsLeft - 1
    /\ richLeft' = richLeft - 1
    /\ IF ContainsPlanMarker(text)
       THEN /\ pendingPlan' = Some(text)
            /\ pendingPlanTask' = task
            /\ pendingPlanOrigin' = planCalls
       ELSE UNCHANGED <<pendingPlan, pendingPlanTask, pendingPlanOrigin>>
    /\ PlanReturn("complete")
    /\ conversationHistory' = Append(conversationHistory, AssistantMsg(text, <<>>))
    /\ historyFile' = SaveImage(conversationHistory')
    /\ UNCHANGED <<safetyLevel, rl, opsLeft, callsLeft, nextId, planCalls,
                   executedPlans>>
    /\ UNCHANGED harnessVars

\* the planning turn yields text and no tool call: look for the plan
PlanModelText(text) ==
    /\ pc = "plan_request"
    /\ turnsLeft > 0 /\ richLeft > 0
    /\ turnsLeft' = turnsLeft - 1
    /\ richLeft' = richLeft - 1
    /\ IF ContainsPlanMarker(text)
       THEN /\ pendingPlan' = Some(text)
            /\ pendingPlanTask' = task
            /\ pendingPlanOrigin' = planCalls
       ELSE UNCHANGED <<pendingPlan, pendingPlanTask, pendingPlanOrigin>>
    /\ PlanReturn("complete")
    /\ UNCHANGED <<conversationHistory, historyFile, safetyLevel, rl, opsLeft,
                   callsLeft, nextId, planCalls, executedPlans>>
    /\ UNCHANGED harnessVars

PlanModelToolCalls(names, text) ==
    LET calls == [i \in 1..Len(names) |-> [id |-> nextId + i - 1, name |-> names[i]]]
    IN  /\ pc = "plan_request"
        /\ turnsLeft > 0 /\ richLeft > 0 /\ Len(names) <= callsLeft
        /\ turnsLeft' = turnsLeft - 1
        /\ richLeft' = richLeft - 1
        /\ callsLeft' = callsLeft - Len(names)
        /\ nextId' = nextId + Len(names)
        /\ messages' = Append(messages, AssistantMsg(text, calls))
        /\ currentState' = IF text # <<>> THEN "streaming" ELSE "thinking"
        /\ toolCalls' = calls
        /\ idx' = 1
        /\ pc' = "plan_tool"
        /\ UNCHANGED <<conversationHistory, historyFile, cfgVars, currentStepInSession,
                       completed, confirmed, task, viaPlan, requestsInRow, opsLeft,
                       planGhosts>>
        /\ UNCHANGED harnessVars

\* one pass of the planning for-loop body up to its suspension or its end
PlanToolStep(argKind) ==
    LET functionName == CurrentCall.name
    IN  /\ pc = "plan_tool"
        /\ UNCHANGED <<conversationHistory, historyFile, cfgVars, budgetVars, nextId,
                       planGhosts>>
        /\ IF functionName \notin READ_ONLY_TOOL_NAMES
           THEN PlanFinishCall(PLAN_BLOCKED, currentState)
           ELSE IF argKind = "badjson"
           THEN PlanFinishCall(PLAN_PARSE_ERROR, currentState)
           ELSE IF formatToolCallThrows(functionName, argKind)
           THEN PlanReturn("error")
           ELSE IF ~validateToolArgs(functionName, argKind)
           THEN PlanFinishCall(ValidationError(functionName), currentState)
           ELSE IF functionName = "ask_user"
           THEN \* not reachable: ask_user is not a read-only tool name
                /\ pc' = "askUser"
                /\ currentState' = "waiting"
                /\ UNCHANGED <<messages, currentStepInSession, toolCalls, idx,
                               completed, confirmed, task, viaPlan, requestsInRow>>
           ELSE IF functionName \in availableTools
           THEN /\ pc' = "plan_exec"
                /\ currentState' = "executing"
                /\ UNCHANGED <<messages, currentStepInSession, toolCalls, idx,
                               completed, confirmed, task, viaPlan, requestsInRow>>
           ELSE PlanFinishCall(ToolNotFound(functionName), currentState)
        /\ UNCHANGED harnessVars

PlanToolReturn(throws) ==
    /\ pc = "plan_exec"
    /\ UNCHANGED <<conversationHistory, historyFile, cfgVars, budgetVars, nextId,
                   planGhosts>>
    /\ PlanFinishCall(IF throws THEN PlanToolFailed ELSE ToolOk(CurrentCall.name),
                      "executing")
    /\ UNCHANGED harnessVars

\* the prompt executePlan builds from the stored task and plan
executionPrompt(t, plan) ==
    <<"Execute", "TASK">> \o t \o <<"PLAN">> \o plan \o <<"INSTRUCTIONS">>

\* executePlan() that leaves the plan stored while run() works
ExecutePlan_noClear ==
    /\ pc = "idle"
    /\ IF ~Truthy(pendingPlan) \/ ~Truthy(pendingPlanTask)
       THEN UNCHANGED vars
       ELSE /\ StartRun(executionPrompt(pendingPlanTask[1], pendingPlan[1]), TRUE)
            /\ UNCHANGED <<pendingPlan, pendingPlanTask, pendingPlanOrigin>>
            /\ executedPlans' = executedPlans \cup {pendingPlanOrigin}
            /\ UNCHANGED planCalls
    /\ UNCHANGED harnessVars

\* executePlan(): refuse without a stored plan and task, else clear the plan
\* and hand the prompt to run()
ExecutePlan ==
    /\ pc = "idle"
    /\ IF ~Truthy(pendingPlan) \/ ~Truthy(pendingPlanTask)
       THEN UNCHANGED vars
       ELSE /\ StartRun(executionPrompt(pendingPlanTask[1], pendingPlan[1]), TRUE)
            /\ clearPlan
            /\ executedPlans' = executedPlans \cup {pendingPlanOrigin}
            /\ UNCHANGED planCalls
    /\ UNCHANGED harnessVars

\* ------------------------------------------------------------------------
\* Commands outside a run
\* ------------------------------------------------------------------------

ClearPlan ==
    /\ pc = "idle"
    /\ hasPendingPlan
    /\ clearPlan
    /\ UNCHANGED <<conversationHistory, safetyLevel, rl, currentState, historyFile,
                   localVars, budgetVars, nextId, planCalls, executedPlans,
                   requestsInRow>>
    /\ UNCHANGED harnessVars

\* cycleSafetyLevel stopping at the last level instead of wrapping round
cycleSafetyLevel_noWrap(level) ==
    LET levels == <<"full", "delete-only", "off">>
        currentIndex == CHOOSE i \in 1..3 : levels[i] = level
    IN  levels[Min(currentIndex + 1, 3)]

cycleSafetyLevel(level) ==
    LET levels == <<"full", "delete-only", "off">>
        currentIndex == CHOOSE i \in 1..3 : levels[i] = level
    IN  levels[(currentIndex % 3) + 1]

CycleSafetyLevel ==
    /\ pc = "idle"
    /\ safetyLevel' = cycleSafetyLevel(safetyLevel)
    /\ UNCHANGED <<conversationHistory, rl, pendingPlan, pendingPlanTask,
                   currentState, historyFile, localVars, envVars>>
    /\ UNCHANGED harnessVars

ClearHistory ==
    /\ pc = "idle"
    /\ conversationHistory # <<>>
    /\ conversationHistory' = <<>>
    /\ UNCHANGED <<safetyLevel, rl, pendingPlan, pendingPlanTask, currentState,
                   historyFile, localVars, envVars>>
    /\ UNCHANGED harnessVars

\* ------------------------------------------------------------------------
\* Specification
\* ------------------------------------------------------------------------

Batches == UNION { [1..n -> ModelToolNames] : n \in 1..MaxBatch }

Next ==
    \/ \E u \in UserInputs : Run(u)
    \/ RunModelFails
    \/ \E t \in RunTexts, names \in Batches \cup {<<>>} : RunStreamFails(t, names)
    \/ \E t \in RunTexts : RunModelText(t)
    \/ \E names \in Batches : RunModelToolCalls(names, <<>>)
    \/ \E k \in ArgKinds : RunToolStep(k)
    \/ \E a \in Answers : ConfirmAnswer(a)
    \/ \E b \in BOOLEAN : ToolReturn(b)
    \/ ToolReturnsLarge
    \/ \E r \in Replies : AskSimple(r)
    \/ \E a \in Answers : AskContinue(a)
    \/ \E t \in Tasks : Plan(t)
    \/ PlanModelFails
    \/ \E t \in PlanTexts : PlanModelText(t)
    \/ \E names \in Batches : PlanModelToolCalls(names, <<>>)
    \/ \E k \in ArgKinds : PlanToolStep(k)
    \/ \E b \in BOOLEAN : PlanToolReturn(b)
    \/ ExecutePlan
    \/ ClearPlan
    \/ CycleSafetyLevel
    \/ ClearHistory

Spec == Init /\ [][Next]_vars

\* ------------------------------------------------------------------------
\* One run() whose continuation prompt is declined
\* ------------------------------------------------------------------------

\* one run() call, with as many answered requests as the step ceiling lets
\* through before the continuation prompt
DecliningInit ==
    /\ InitAgent
    /\ RetryIdle /\ StreamIdle /\ TrimIdle /\ LiveIdle
    /\ ReplIdle /\ SessionIdle /\ ToolsIdle
    /\ opsLeft = 1
    /\ turnsLeft = maxSteps
    /\ richLeft = MaxRichLong
    /\ callsLeft = 1

\* what the model, the tools and the user do during the run: every request,
\* tool invocation and prompt returns, the continuation prompt with an answer
\* that declines
RunGoes ==
    \/ RunModelFails
    \/ \E t \in RunTexts, names \in Batches \cup {<<>>} : RunStreamFails(t, names)
    \/ \E t \in RunTexts : RunModelText(t)
    \/ \E names \in Batches : RunModelToolCalls(names, <<>>)
    \/ \E k \in ArgKinds : RunToolStep(k)
    \/ \E a \in Answers : ConfirmAnswer(a)
    \/ \E b \in BOOLEAN : ToolReturn(b)
    \/ ToolReturnsLarge
    \/ \E r \in Replies : AskSimple(r)
    \/ \E a \in Answers : ~IsAffirmative(a) /\ AskContinue(a)

DecliningNext ==
    \/ \E u \in UserInputs : Run(u)
    \/ RunGoes

DecliningSpec == DecliningInit /\ [][DecliningNext]_vars /\ WF_vars(RunGoes)

\* ------------------------------------------------------------------------
\* One plan() that explores as long as it is let
\* ------------------------------------------------------------------------

\* one plan() call; the model may answer one request more than the step
\* limit of plan() allows, with one tool call in every turn
PlanningInit ==
    /\ InitAgent
    /\ RetryIdle /\ StreamIdle /\ TrimIdle /\ LiveIdle
    /\ ReplIdle /\ SessionIdle /\ ToolsIdle
    /\ opsLeft = 1
    /\ turnsLeft = PlanMaxSteps + 1
    /\ richLeft = PlanMaxSteps + 1
    /\ callsLeft = PlanMaxSteps + 1

\* the batches of the exploring model: a read-only tool, or one that is not
\* read-only and is refused
PlanningBatches == {<<"read_file">>, <<"write_file">>}

\* what the model and the tools do during the planning: every request and
\* tool invocation returns
PlanGoes ==
    \/ PlanModelFails
    \/ \E t \in PlanTexts : PlanModelText(t)
    \/ \E names \in PlanningBatches : PlanModelToolCalls(names, <<>>)
    \/ \E k \in {"valid", "null"} : PlanToolStep(k)
    \/ \E b \in BOOLEAN : PlanToolReturn(b)

PlanningNext ==
    \/ Plan(<<"t1">>)
    \/ PlanGoes

PlanningSpec == PlanningInit /\ [][PlanningNext]_vars /\ WF_vars(PlanGoes)

TypeOK ==
    /\ pc \in {"idle"} \cup RunPcs \cup PlanPcs
    /\ safetyLevel \in SafetyLevels
    /\ currentStepInSession \in 0..(maxSteps + 1)

\* ------------------------------------------------------------------------
\* callWithRetry on its own
\* ------------------------------------------------------------------------

\* default of the retries parameter
retries == 3

\* base of the delay, in ms
RetryBaseDelayMs == 1000

\* an error without a status property
NoStatus == 0

\* status of the error a rejected request carries
ErrorStatuses == {NoStatus, 400, 401, 429, 500, 502, 503}

RECURSIVE Pow2(_)
Pow2(n) == IF n = 0 THEN 1 ELSE 2 * Pow2(n - 1)

\* the retry test taking every HTTP error status
isRetryable_clientErrors(status) == status >= 400

isRetryable(status) == status = 429 \/ status >= 500

RetryInit ==
    /\ InitAgent
    /\ safetyLevel = "full"
    /\ opsLeft = 0 /\ turnsLeft = 0 /\ richLeft = 0 /\ callsLeft = 0
    /\ StreamIdle /\ TrimIdle /\ LiveIdle /\ ReplIdle /\ SessionIdle /\ ToolsIdle
    /\ retryPc = "calling"
    /\ retryIndex = 0
    /\ caught = <<>>
    /\ delays = <<>>
    /\ rethrown = None
    /\ streamErrors = <<>>

\* fn() resolves: its value is returned at once
RetryFnResolves ==
    /\ retryPc = "calling"
    /\ retryPc' = "returned"
    /\ UNCHANGED <<retryIndex, caught, delays, rethrown, streamErrors>>
    /\ UNCHANGED retryFrame

\* fn() rejects: rethrow on the last iteration or on an error that is not
\* retryable, else start the delay
RetryFnRejects(status) ==
    LET error == [status |-> status, attempt |-> retryIndex + 1]
    IN  /\ retryPc = "calling"
        /\ caught' = Append(caught, error)
        /\ IF retryIndex = retries - 1 \/ ~isRetryable(status)
           THEN /\ retryPc' = "thrown"
                /\ rethrown' = Some(error)
                /\ UNCHANGED <<retryIndex, delays>>
           ELSE /\ retryPc' = "waiting"
                /\ delays' = Append(delays, RetryBaseDelayMs * Pow2(retryIndex))
                /\ UNCHANGED <<retryIndex, rethrown>>
        /\ UNCHANGED streamErrors
        /\ UNCHANGED retryFrame

\* the delay is over: next iteration of the for-loop
RetryTimerFires ==
    /\ retryPc = "waiting"
    /\ retryIndex' = retryIndex + 1
    /\ IF retryIndex + 1 < retries
       THEN retryPc' = "calling" /\ UNCHANGED rethrown
       ELSE \* not reachable: the last iteration never waits
            /\ retryPc' = "thrown"
            /\ rethrown' = Some([status |-> NoStatus, attempt |-> 0])
    /\ UNCHANGED <<caught, delays, streamErrors>>
    /\ UNCHANGED retryFrame

RetryNext ==
    \/ RetryFnResolves
    \/ \E status \in ErrorStatuses : RetryFnRejects(status)
    \/ RetryTimerFires

RetrySpec == RetryInit /\ [][RetryNext]_vars

\* ------------------------------------------------------------------------
\* The request of one turn: callWithRetry around the creation of the request,
\* then the for-await loop over the response, both inside the try of the turn
\* ------------------------------------------------------------------------

\* what a step of the turn leaves alone besides the status display
turnFrame ==
    <<conversationHistory, safetyLevel, rl, pendingPlan, pendingPlanTask,
      historyFile, localVars, envVars, streamVars, trimVars, liveVars, replVars,
      sessionVars, toolVars>>

TurnInit ==
    /\ InitAgent
    /\ safetyLevel = "full"
    /\ opsLeft = 0 /\ turnsLeft = 0 /\ richLeft = 0 /\ callsLeft = 0
    /\ RetryIdle /\ StreamIdle /\ TrimIdle /\ LiveIdle
    /\ ReplIdle /\ SessionIdle /\ ToolsIdle

\* the try block is entered: thinking state, then callWithRetry is called with
\* the creation of the request as fn
TurnRequests ==
    /\ retryPc = "idle"
    /\ currentState = "idle"
    /\ currentState' = "thinking"
    /\ retryPc' = "calling"
    /\ UNCHANGED <<retryIndex, caught, delays, rethrown, streamErrors>>
    /\ UNCHANGED turnFrame

\* callWithRetry has rethrown: the catch of the turn sets the error state and
\* breaks
TurnCallFails ==
    /\ retryPc = "thrown"
    /\ currentState' = "error"
    /\ retryPc' = "failed"
    /\ UNCHANGED <<retryIndex, caught, delays, rethrown, streamErrors>>
    /\ UNCHANGED turnFrame

\* a chunk with content arrives from the accepted request
TurnStreamChunk ==
    /\ retryPc = "returned"
    /\ currentState = "thinking"
    /\ currentState' = "streaming"
    /\ UNCHANGED retryVars
    /\ UNCHANGED turnFrame

\* the reading of the response done by fn itself, so that callWithRetry
\* catches what the stream raises
TurnStreamRaises_insideFn(status) ==
    /\ retryPc = "returned"
    /\ streamErrors' = Append(streamErrors, status)
    /\ caught' = Append(caught, [status |-> status, attempt |-> retryIndex + 1])
    /\ IF retryIndex = retries - 1 \/ ~isRetryable(status)
       THEN /\ retryPc' = "failed"
            /\ currentState' = "error"
            /\ UNCHANGED delays
       ELSE /\ retryPc' = "waiting"
            /\ delays' = Append(delays, RetryBaseDelayMs * Pow2(retryIndex))
            /\ UNCHANGED currentState
    /\ UNCHANGED <<retryIndex, rethrown>>
    /\ UNCHANGED turnFrame

\* the for-await loop raises an error of the given status: callWithRetry has
\* returned already, so the error goes to the catch of the turn, which sets
\* the error state and breaks
TurnStreamRaises(status) ==
    /\ retryPc = "returned"
    /\ streamErrors' = Append(streamErrors, status)
    /\ currentState' = "error"
    /\ retryPc' = "failed"
    /\ UNCHANGED <<retryIndex, caught, delays, rethrown>>
    /\ UNCHANGED turnFrame

\* the stream is exhausted: the turn goes on with what was assembled
TurnStreamEnds ==
    /\ retryPc = "returned"
    /\ retryPc' = "streamed"
    /\ UNCHANGED <<retryIndex, caught, delays, rethrown, streamErrors>>
    /\ UNCHANGED <<currentState, turnFrame>>

TurnNext ==
    \/ TurnRequests
    \/ RetryNext
    \/ TurnCallFails
    \/ TurnStreamChunk
    \/ \E status \in ErrorStatuses : TurnStreamRaises(status)
    \/ TurnStreamEnds

TurnSpec == TurnInit /\ [][TurnNext]_vars

\* ------------------------------------------------------------------------
\* The pass over a response stream on its own
\* ------------------------------------------------------------------------

\* chunks of one stream
MaxChunks == 3

\* tcDelta.index === undefined
NoIndex == 0 - 1

\* a tool-call delta; an empty sequence is a field that is absent or ''
TcDelta(index, id, name, arguments) ==
    [index |-> index, id |-> id, name |-> name, arguments |-> arguments]

\* the tool-call deltas of the exploration: pieces of id, name and arguments
\* for the indices 0 and 1, a delta without data, a delta without index
TcDeltas ==
    { TcDelta(index, f[1], f[2], f[3]) :
        index \in {0, 1},
        f \in { <<<<>>, <<>>, <<>>>>, <<<<"c">>, <<"f">>, <<>>>>,
                <<<<>>, <<>>, <<"{">>>>, <<<<>>, <<>>, <<"}">>>>,
                <<<<"c">>, <<>>, <<>>>>, <<<<>>, <<"f">>, <<"{">>>> } }
    \cup { TcDelta(NoIndex, <<"c">>, <<"f">>, <<"{">>) }

\* chunk.choices[0].delta: text and tool-call deltas
Chunk(content, tcs) == [content |-> content, tool_calls |-> tcs]

StreamChunks ==
    { Chunk(<<>>, <<d>>) : d \in TcDeltas }
    \cup { Chunk(<<"x">>, <<>>),
           Chunk(<<"y">>, <<TcDelta(0, <<>>, <<>>, <<"}">>)>>),
           Chunk(<<>>, << TcDelta(0, <<>>, <<>>, <<"{">>),
                          TcDelta(1, <<"c">>, <<"f">>, <<>>) >>) }

Streams == UNION { [1..n -> StreamChunks] : n \in 1..MaxChunks }

\* the entry pushed on first sight of an index
EmptyToolCall == [id |-> <<>>, name |-> <<>>, arguments |-> <<>>]

\* the delta handling that stores the piece instead of appending it
applyToolCallDelta_replaces(calls, d) ==
    IF d.index = NoIndex THEN [calls |-> calls, raised |-> FALSE]
    ELSE LET allocated == IF Len(calls) <= d.index
                          THEN Append(calls, EmptyToolCall) ELSE calls
             pos == d.index + 1
         IN  IF pos > Len(allocated)
             THEN [calls |-> allocated,
                   raised |-> d.id # <<>> \/ d.name # <<>> \/ d.arguments # <<>>]
             ELSE [calls |->
                      [allocated EXCEPT ![pos] =
                          [id |-> IF d.id # <<>> THEN d.id ELSE @.id,
                           name |-> IF d.name # <<>> THEN d.name ELSE @.name,
                           arguments |-> IF d.arguments # <<>>
                                         THEN d.arguments ELSE @.arguments]],
                   raised |-> FALSE]

\* the body of the loop over delta.tool_calls: push one entry when the list
\* is not longer than the index, then append the pieces to toolCalls[index];
\* when that element is undefined, appending a piece raises a TypeError
applyToolCallDelta(calls, d) ==
    IF d.index = NoIndex THEN [calls |-> calls, raised |-> FALSE]
    ELSE LET allocated == IF Len(calls) <= d.index
                          THEN Append(calls, EmptyToolCall) ELSE calls
             pos == d.index + 1
         IN  IF pos > Len(allocated)
             THEN [calls |-> allocated,
                   raised |-> d.id # <<>> \/ d.name # <<>> \/ d.arguments # <<>>]
             ELSE [calls |->
                      [allocated EXCEPT ![pos] =
                          [id |-> @.id \o d.id,
                           name |-> @.name \o d.name,
                           arguments |-> @.arguments \o d.arguments]],
                   raised |-> FALSE]

\* the loop over delta.tool_calls of one chunk, left by the first TypeError
RECURSIVE applyToolCallDeltas(_, _)
applyToolCallDeltas(calls, ds) ==
    IF ds = <<>> THEN [calls |-> calls, raised |-> FALSE]
    ELSE LET r == applyToolCallDelta(calls, Head(ds))
         IN  IF r.raised THEN r ELSE applyToolCallDeltas(r.calls, Tail(ds))

StreamInit ==
    /\ InitAgent
    /\ safetyLevel = "full"
    /\ opsLeft = 0 /\ turnsLeft = 0 /\ richLeft = 0 /\ callsLeft = 0
    /\ RetryIdle /\ TrimIdle /\ LiveIdle /\ ReplIdle /\ SessionIdle /\ ToolsIdle
    /\ streamPc = "reading"
    /\ streamInput \in Streams
    /\ chunks = streamInput
    /\ fullContent = <<>>
    /\ streamToolCalls = <<>>

\* one iteration of the for-await loop
StreamChunk ==
    LET chunk == Head(chunks)
        r == applyToolCallDeltas(streamToolCalls, chunk.tool_calls)
    IN  /\ streamPc = "reading"
        /\ chunks # <<>>
        /\ chunks' = Tail(chunks)
        /\ fullContent' = fullContent \o chunk.content
        /\ streamToolCalls' = r.calls
        /\ streamPc' = IF r.raised THEN "raised" ELSE "reading"
        /\ UNCHANGED streamInput
        /\ UNCHANGED streamFrame

\* the stream is exhausted: the loop is left
StreamEnds ==
    /\ streamPc = "reading"
    /\ chunks = <<>>
    /\ streamPc' = "ended"
    /\ UNCHANGED <<chunks, streamInput, fullContent, streamToolCalls>>
    /\ UNCHANGED streamFrame

StreamNext ==
    \/ StreamChunk
    \/ StreamEnds

StreamSpec == StreamInit /\ [][StreamNext]_vars

\* ------------------------------------------------------------------------
\* trimToTokenLimit on its own
\* ------------------------------------------------------------------------

\* messages of one history handed to trimToTokenLimit
MaxTrimLen == 4

\* messages of the exploration: short, without content, a tool call and its
\* result, long, longer than the whole budget
TrimMessages ==
    { UserMsg(<<"hi">>), AssistantMsg(<<>>, <<>>),
      AssistantMsg(<<>>, <<[id |-> 1, name |-> "read_file"]>>),
      ToolMsg(1, "read_file", <<"[truncated-for-history]">>),
      UserMsg(<<"[text-200k]">>), UserMsg(<<"[text-400k]">>), UserMsg(<<"[text-500k]">>) }

TrimHistories == UNION { [1..n -> TrimMessages] : n \in 0..MaxTrimLen }

\* a history of 120 messages of 1,000 estimated tokens each (3,486 characters
\* are 996 tokens, and 4 of overhead)
EvenHistory == [i \in 1..120 |-> UserMsg(<<"[text-3486]">>)]

TrimInit ==
    /\ InitAgent
    /\ safetyLevel = "full"
    /\ opsLeft = 0 /\ turnsLeft = 0 /\ richLeft = 0 /\ callsLeft = 0
    /\ RetryIdle /\ StreamIdle /\ LiveIdle /\ ReplIdle /\ SessionIdle /\ ToolsIdle
    /\ trimPc = "called"
    /\ trimHistory \in TrimHistories \cup {EvenHistory}
    /\ trimInput = trimHistory
    /\ trimOutput = <<>>
    /\ trimRemoved = 0

\* prepareMessagesForAPI: trimToTokenLimit(this.conversationHistory,
\* MAX_CONTEXT_TOKENS) returns, and the history is replaced by the returned
\* list when that list is shorter
TrimReturns ==
    LET trimmedHistory == trimToTokenLimit(trimInput, MAX_CONTEXT_TOKENS)
    IN  /\ trimPc = "called"
        /\ trimOutput' = trimmedHistory
        /\ trimHistory' = IF Len(trimmedHistory) < Len(trimHistory)
                          THEN trimmedHistory ELSE trimHistory
        /\ trimRemoved' = trimRemoved + (Len(trimInput) - Len(trimmedHistory))
        /\ trimPc' = "returned"
        /\ UNCHANGED trimInput
        /\ UNCHANGED trimFrame

\* the next run calls prepareMessagesForAPI on the history the last one left
TrimAgain ==
    /\ trimPc = "returned"
    /\ trimInput' = trimHistory
    /\ trimPc' = "called"
    /\ UNCHANGED <<trimOutput, trimHistory, trimRemoved>>
    /\ UNCHANGED trimFrame

TrimNext == TrimReturns \/ TrimAgain

TrimSpec == TrimInit /\ [][TrimNext]_vars

\* ------------------------------------------------------------------------
\* The live renderer over the stream of one turn
\* ------------------------------------------------------------------------

\* chunks of one response stream
MaxLiveChunks == 3

\* what delta.tool_calls of a chunk is: absent, a list without an indexed
\* entry, a list with one
ToolCallsKinds == {"none", "empty", "indexed"}

\* advances of the clock in one turn
MaxLiveTicks == 3

\* what the clock advances by between two steps, in milliseconds
ClockSteps == {1, throttleMs - 1, throttleMs}

\* a sequence without its i-th element
RemoveAt(seq, i) == SubSeq(seq, 1, i - 1) \o SubSeq(seq, i + 1, Len(seq))

\* LiveAssistantRenderer.start
liveStart(r) ==
    IF ~isTTY THEN r ELSE [r EXCEPT !.active = TRUE, !.lastRenderAt = 0]

\* update() arming every timer without delay
liveUpdate_noDelay(r, markdown) ==
    IF ~r.active \/ ~isTTY THEN r
    ELSE IF r.scheduled THEN [r EXCEPT !.latestMarkdown = markdown]
    ELSE [r EXCEPT !.latestMarkdown = markdown, !.scheduled = TRUE,
                   !.timers = Append(@, now)]

\* LiveAssistantRenderer.update: note the text and arm the timer unless one
\* is armed
liveUpdate(r, markdown) ==
    LET elapsed == now - r.lastRenderAt
        delay   == IF elapsed >= throttleMs THEN 0 ELSE throttleMs - elapsed
    IN  IF ~r.active \/ ~isTTY THEN r
        ELSE IF r.scheduled THEN [r EXCEPT !.latestMarkdown = markdown]
        ELSE [r EXCEPT !.latestMarkdown = markdown, !.scheduled = TRUE,
                       !.timers = Append(@, now + delay)]

\* LiveAssistantRenderer.flush writes to the terminal
flushDraws(r) == r.active /\ isTTY

\* LiveAssistantRenderer.flush: the fields afterwards
liveFlush(r) == IF flushDraws(r) THEN [r EXCEPT !.lastRenderAt = now] ELSE r

\* one entry of the log of redraws: when, by the timer or by done(), the
\* text drawn, the text accumulated by then
Redraw(by, r, text) ==
    [at |-> now, by |-> by, shown |-> r.latestMarkdown, text |-> text]

\* LiveAssistantRenderer.done: the fields afterwards
liveDone(r) ==
    IF ~r.active THEN r
    ELSE [active |-> FALSE, scheduled |-> FALSE, latestMarkdown |-> 0,
          lastRenderAt |-> liveFlush(r).lastRenderAt,
          timers |-> IF r.scheduled THEN RemoveAt(r.timers, Len(r.timers))
                     ELSE r.timers]

LiveInit ==
    /\ InitAgent
    /\ safetyLevel = "full"
    /\ opsLeft = 0 /\ turnsLeft = 0 /\ richLeft = 0 /\ callsLeft = 0
    /\ RetryIdle /\ StreamIdle /\ TrimIdle /\ ReplIdle /\ SessionIdle /\ ToolsIdle
    /\ livePc = "reading"
    /\ isTTY \in BOOLEAN
    /\ uiStreaming \in {"live", "final"}
    /\ liveChunksLeft = MaxLiveChunks
    /\ liveContent = 0
    /\ liveToolCalls = 0
    /\ streamStarted = FALSE
    /\ hasToolCalls = FALSE
    /\ assistantContentRendered = FALSE
    /\ live = NewRenderer
    /\ screen = None
    /\ finalFlushes = 0
    /\ lateRedraws = 0
    /\ now = throttleMs
    /\ redraws = <<>>
    /\ liveTicksLeft = MaxLiveTicks
    /\ consoleLog = <<>>

\* the stream of the turn is over for the renderer: tool calls have begun,
\* or the for-await loop has been left
StreamOver == hasToolCalls \/ livePc \in {"tools", "finished", "failed"}

\* one pass of the for-await body: the content part, then the tool-call part
LiveChunk(content, tcs) ==
    LET started == streamStarted \/ content
        r1      == IF content /\ ~streamStarted /\ uiStreaming = "live"
                   THEN liveStart(live) ELSE live
        full    == liveContent + (IF content THEN 1 ELSE 0)
        r2      == IF content /\ uiStreaming = "live" /\ isTTY
                   THEN liveUpdate(r1, full) ELSE r1
        first   == tcs # "none" /\ ~hasToolCalls
        freeze  == first /\ uiStreaming = "live" /\ started /\ isTTY
        printed == first /\ ~freeze /\ started /\ full > 0 /\ ~assistantContentRendered
        draws   == freeze /\ flushDraws(r2)
    IN  /\ livePc = "reading"
        /\ liveChunksLeft > 0
        /\ liveChunksLeft' = liveChunksLeft - 1
        /\ liveContent' = full
        /\ streamStarted' = started
        /\ hasToolCalls' = (hasToolCalls \/ tcs # "none")
        /\ assistantContentRendered' = (assistantContentRendered \/ freeze \/ printed)
        /\ liveToolCalls' = IF tcs = "indexed" THEN Max(liveToolCalls, 1) ELSE liveToolCalls
        /\ live' = IF freeze THEN liveDone(r2) ELSE r2
        /\ screen' = IF draws THEN Some(r2.latestMarkdown) ELSE screen
        /\ finalFlushes' = finalFlushes + (IF draws THEN 1 ELSE 0)
        /\ redraws' = IF draws THEN Append(redraws, Redraw("done", r2, full))
                      ELSE redraws
        /\ consoleLog' = IF printed THEN Append(consoleLog, full) ELSE consoleLog
        /\ UNCHANGED <<livePc, isTTY, uiStreaming, lateRedraws, now, liveTicksLeft>>
        /\ UNCHANGED liveFrame

\* time passes
LiveClock(ms) ==
    /\ livePc # "idle"
    /\ liveTicksLeft > 0
    /\ liveTicksLeft' = liveTicksLeft - 1
    /\ now' = now + ms
    /\ UNCHANGED <<livePc, isTTY, uiStreaming, liveChunksLeft, liveContent,
                   liveToolCalls, streamStarted, hasToolCalls,
                   assistantContentRendered, live, screen, finalFlushes,
                   lateRedraws, redraws, consoleLog>>
    /\ UNCHANGED liveFrame

\* a timer armed by update() is due and fires: scheduled = null, then flush()
LiveTimerFires ==
    \E i \in 1..Len(live.timers) :
        LET draws == flushDraws(live)
            fired == [live EXCEPT !.scheduled = FALSE, !.timers = RemoveAt(@, i)]
        IN  /\ livePc # "idle"
            /\ live.timers[i] <= now
            /\ live' = liveFlush(fired)
            /\ screen' = IF draws THEN Some(live.latestMarkdown) ELSE screen
            /\ lateRedraws' = lateRedraws + (IF draws /\ StreamOver THEN 1 ELSE 0)
            /\ redraws' = IF draws
                          THEN Append(redraws, Redraw("timer", live, liveContent))
                          ELSE redraws
            /\ UNCHANGED <<livePc, isTTY, uiStreaming, liveChunksLeft, liveContent,
                           liveToolCalls, streamStarted, hasToolCalls,
                           assistantContentRendered, finalFlushes, now,
                           liveTicksLeft, consoleLog>>
            /\ UNCHANGED liveFrame

\* the stream ends: with tool calls the turn goes on to process them, without
\* it shows the text (live.done() or a print) before anything is awaited
LiveStreamEnds ==
    LET show    == liveContent > 0 /\ ~assistantContentRendered
        useLive == show /\ uiStreaming = "live" /\ isTTY /\ streamStarted
        draws   == useLive /\ flushDraws(live)
    IN  /\ livePc = "reading"
        /\ IF liveToolCalls > 0
           THEN /\ livePc' = "tools"
                /\ UNCHANGED <<assistantContentRendered, live, screen, finalFlushes,
                               redraws, consoleLog>>
           ELSE /\ livePc' = "finished"
                /\ assistantContentRendered' = (assistantContentRendered \/ show)
                /\ live' = IF useLive THEN liveDone(live) ELSE live
                /\ screen' = IF draws THEN Some(live.latestMarkdown) ELSE screen
                /\ finalFlushes' = finalFlushes + (IF draws THEN 1 ELSE 0)
                /\ redraws' = IF draws
                              THEN Append(redraws, Redraw("done", live, liveContent))
                              ELSE redraws
                /\ consoleLog' = IF show /\ ~useLive
                                 THEN Append(consoleLog, liveContent) ELSE consoleLog
        /\ UNCHANGED <<isTTY, uiStreaming, liveChunksLeft, liveContent, liveToolCalls,
                       streamStarted, hasToolCalls, lateRedraws, now, liveTicksLeft>>
        /\ UNCHANGED liveFrame

\* the stream raises: the catch of the turn sets the error state and breaks
LiveStreamFails ==
    /\ livePc = "reading"
    /\ livePc' = "failed"
    /\ UNCHANGED <<isTTY, uiStreaming, liveChunksLeft, liveContent, liveToolCalls,
                   streamStarted, hasToolCalls, assistantContentRendered, live,
                   screen, finalFlushes, lateRedraws, now, redraws, liveTicksLeft,
                   consoleLog>>
    /\ UNCHANGED liveFrame

LiveNext ==
    \/ \E content \in BOOLEAN, tcs \in ToolCallsKinds : LiveChunk(content, tcs)
    \/ \E ms \in ClockSteps : LiveClock(ms)
    \/ LiveTimerFires
    \/ LiveStreamEnds
    \/ LiveStreamFails

LiveSpec == LiveInit /\ [][LiveNext]_vars

\* ------------------------------------------------------------------------
\* The REPL, its prompts and the shutdown path
\* ------------------------------------------------------------------------

\* suspensions of one run, input lines of one session
MaxReplSteps == 3

MaxLines == 3

\* the prompts of a run: confirmDangerousAction, askContinue, askUserSimple,
\* askUser
RunPrompts == {"confirm", "continue", "reply", "ask_user"}

\* what a run reaches next: a model request, a tool execution, one of its
\* prompts, or its return
RunNexts == {"request", "tool", "return"} \cup RunPrompts

\* a line given to the primary prompt: exit, a task for run(), anything
\* handled at once (empty line, synchronous slash command)
LineKinds == {"exit", "text", "other"}

\* rl.question(query, cb): a question asked while one is pending is not
\* registered
question(pending, cb) == IF pending = "none" THEN cb ELSE pending

ReplInit ==
    /\ InitAgent
    /\ safetyLevel = "full"
    /\ opsLeft = 0 /\ turnsLeft = 0 /\ richLeft = 0 /\ callsLeft = 0
    /\ RetryIdle /\ StreamIdle /\ TrimIdle /\ LiveIdle /\ SessionIdle /\ ToolsIdle
    /\ replPc = "asking"
    /\ runAt = "none"
    /\ runPrompt = "none"
    /\ questionCallback = question("none", "primary")
    /\ sigintPc = "none"
    /\ processExited = FALSE
    /\ rlClosed = FALSE
    /\ shutdownSaved = FALSE
    /\ abortedStep = "none"
    /\ lineLog = <<>>
    /\ replStepsLeft = MaxReplSteps

\* the callback of the primary prompt reaches agent.run, which runs up to
\* its first request, while promptUser() is called at once
RunStarts_notAwaited ==
    /\ replStepsLeft > 0
    /\ replStepsLeft' = replStepsLeft - 1
    /\ replPc' = "asking"
    /\ runAt' = "request"
    /\ runPrompt' = "none"
    /\ questionCallback' = question("none", "primary")

\* the callback of the primary prompt awaits agent.run, which runs up to its
\* first request
RunStarts ==
    /\ replStepsLeft > 0
    /\ replStepsLeft' = replStepsLeft - 1
    /\ replPc' = "running"
    /\ runAt' = "request"
    /\ runPrompt' = "none"
    /\ questionCallback' = "none"

\* the run goes on to its next suspension, or returns and the callback of
\* the primary prompt calls promptUser()
RunGoesOn(next, pending) ==
    IF next = "return"
    THEN /\ replPc' = "asking"
         /\ runAt' = "none"
         /\ runPrompt' = "none"
         /\ questionCallback' = question(pending, "primary")
         /\ UNCHANGED replStepsLeft
    ELSE /\ replStepsLeft > 0
         /\ replStepsLeft' = replStepsLeft - 1
         /\ UNCHANGED replPc
         /\ IF next \in RunPrompts
            THEN /\ runAt' = "prompt"
                 /\ runPrompt' = next
                 /\ questionCallback' = question(pending, next)
            ELSE /\ runAt' = next
                 /\ runPrompt' = "none"
                 /\ questionCallback' = pending

\* a line arrives on standard input: the pending question, if any, gets it
ReplLine(input, next) ==
    /\ replPc # "idle"
    /\ ~processExited /\ ~rlClosed
    /\ Len(lineLog) < MaxLines
    /\ lineLog' = Append(lineLog, [consumer |-> questionCallback, runPrompt |-> runPrompt])
    /\ CASE questionCallback = "none" ->
               /\ input = "other" /\ next = "return"
               /\ UNCHANGED <<replPc, runAt, runPrompt, questionCallback, replStepsLeft>>
         [] questionCallback = "primary" ->
               /\ next = "return"
               /\ CASE input = "exit" ->
                         /\ replPc' = "shutdown"
                         /\ questionCallback' = "none"
                         /\ UNCHANGED <<runAt, runPrompt, replStepsLeft>>
                    [] input = "text" -> RunStarts
                    [] OTHER ->
                         /\ questionCallback' = question("none", "primary")
                         /\ UNCHANGED <<replPc, runAt, runPrompt, replStepsLeft>>
         [] OTHER ->
               /\ input = "other"
               /\ RunGoesOn(next, "none")
    /\ UNCHANGED <<sigintPc, processExited, rlClosed, shutdownSaved, abortedStep>>
    /\ UNCHANGED replFrame

\* the model request or tool execution in flight completes
ReplStepEnds(next) ==
    /\ runAt \in {"request", "tool"}
    /\ ~processExited
    /\ RunGoesOn(next, questionCallback)
    /\ UNCHANGED <<sigintPc, processExited, rlClosed, shutdownSaved, abortedStep, lineLog>>
    /\ UNCHANGED replFrame

\* SIGINT: the handler calls gracefulShutdown, which awaits saveHistory
Sigint ==
    /\ replPc # "idle"
    /\ ~processExited
    /\ sigintPc = "none"
    /\ sigintPc' = "saving"
    /\ UNCHANGED <<replPc, runAt, runPrompt, questionCallback, processExited,
                   rlClosed, shutdownSaved, abortedStep, lineLog, replStepsLeft>>
    /\ UNCHANGED replFrame

\* gracefulShutdown after saveHistory: rl.close(), process.exit(0)
ShutdownEnds ==
    /\ sigintPc = "saving" \/ replPc = "shutdown"
    /\ ~processExited
    /\ shutdownSaved' = TRUE
    /\ rlClosed' = TRUE
    /\ processExited' = TRUE
    /\ abortedStep' = IF runAt \in {"request", "tool"} THEN runAt ELSE "none"
    /\ UNCHANGED <<replPc, runAt, runPrompt, questionCallback, sigintPc, lineLog,
                   replStepsLeft>>
    /\ UNCHANGED replFrame

ReplNext ==
    \/ \E input \in LineKinds, next \in RunNexts : ReplLine(input, next)
    \/ \E next \in RunNexts : ReplStepEnds(next)
    \/ Sigint
    \/ ShutdownEnds

ReplSpec == ReplInit /\ [][ReplNext]_vars

\* ------------------------------------------------------------------------
\* Session counters and settings
\* ------------------------------------------------------------------------

\* operations of one session
MaxSessionOps == 3

\* setUiMaxWidth's range
MinUiWidth == 40

MaxUiWidth == 140

\* Number.isFinite
isFinite(x) == x.kind = "finite"

\* Math.floor
floor(x) == IF isFinite(x) THEN Finite(10 * (x.v \div 10)) ELSE x

\* Math.max of two numbers
MathMax(a, b) ==
    IF a.kind = "nan" \/ b.kind = "nan" THEN NaN
    ELSE IF a.kind = "+inf" \/ b.kind = "+inf" THEN PosInfinity
    ELSE IF a.kind = "-inf" THEN b
    ELSE IF b.kind = "-inf" THEN a
    ELSE Finite(Max(a.v, b.v))

\* Math.min of two numbers
MathMin(a, b) ==
    IF a.kind = "nan" \/ b.kind = "nan" THEN NaN
    ELSE IF a.kind = "-inf" \/ b.kind = "-inf" THEN NegInfinity
    ELSE IF a.kind = "+inf" THEN b
    ELSE IF b.kind = "+inf" THEN a
    ELSE Finite(Min(a.v, b.v))

\* clamp without the lower limit
clamp_noLower(n, min, max) == MathMin(max, n)

clamp(n, min, max) == MathMin(max, MathMax(min, n))

setUiMaxWidth(ui, width) ==
    [ui EXCEPT !.maxWidth =
        clamp(floor(width), Finite(10 * MinUiWidth), Finite(10 * MaxUiWidth))]

\* what Number(parts[2]) of /ui width can be
WidthArgs ==
    {NaN, PosInfinity, NegInfinity}
    \cup { Finite(v) : v \in {0 - 50, 0, 395, 400, 405, 925, 1400, 1405, 10000} }

\* a usage field that is missing counts as 0
OrZero(opt) == IF opt = None THEN 0 ELSE opt[1]

\* usage objects of a chunk
Usages ==
    [prompt_tokens : {None, Some(0), Some(7)}, completion_tokens : {None, Some(3)}]

\* the usage tracking storing the chunk's figures instead of adding them
addUsage_overwrites(tokens, usage) ==
    [input  |-> OrZero(usage.prompt_tokens),
     output |-> OrZero(usage.completion_tokens)]

\* the usage tracking of the for-await body
addUsage(tokens, usage) ==
    [input  |-> tokens.input + OrZero(usage.prompt_tokens),
     output |-> tokens.output + OrZero(usage.completion_tokens)]

SessionInit ==
    /\ InitAgent
    /\ safetyLevel = "full"
    /\ opsLeft = 0 /\ turnsLeft = 0 /\ richLeft = 0 /\ callsLeft = 0
    /\ RetryIdle /\ StreamIdle /\ TrimIdle /\ LiveIdle /\ ReplIdle /\ ToolsIdle
    /\ totalTokens = NoTokens
    /\ historyLength = 0
    /\ agentSafetyLevel \in SafetyLevels
    /\ UI = DEFAULT_UI
    /\ cycleReturned = None
    /\ levelTrail = <<agentSafetyLevel>>
    /\ tokensBefore = NoTokens
    /\ sessionOpsLeft = MaxSessionOps

\* every operation of the session
SessionOp ==
    /\ sessionOpsLeft > 0
    /\ sessionOpsLeft' = sessionOpsLeft - 1
    /\ tokensBefore' = totalTokens
    /\ UNCHANGED sessionFrame

\* a chunk with usage arrives on the stream of a run or of a plan
UsageChunk(usage) ==
    /\ SessionOp
    /\ totalTokens' = addUsage(totalTokens, usage)
    /\ UNCHANGED <<historyLength, agentSafetyLevel, UI, cycleReturned, levelTrail>>

\* a run or a plan pushes a message onto the history
SessionMessage ==
    /\ SessionOp
    /\ historyLength' = historyLength + 1
    /\ UNCHANGED <<totalTokens, agentSafetyLevel, UI, cycleReturned, levelTrail>>

\* clearHistory
SessionClear ==
    /\ SessionOp
    /\ historyLength' = 0
    /\ totalTokens' = NoTokens
    /\ UNCHANGED <<agentSafetyLevel, UI, cycleReturned, levelTrail>>

\* cycleSafetyLevel()
SessionCycle ==
    /\ SessionOp
    /\ agentSafetyLevel' = cycleSafetyLevel(agentSafetyLevel)
    /\ cycleReturned' = Some(agentSafetyLevel')
    /\ levelTrail' = Append(levelTrail, agentSafetyLevel')
    /\ UNCHANGED <<totalTokens, historyLength, UI>>

\* /ui width <n>: only a finite number reaches setUiMaxWidth
UiWidthCommand(width) ==
    /\ SessionOp
    /\ UI' = IF isFinite(width) THEN setUiMaxWidth(UI, width) ELSE UI
    /\ UNCHANGED <<totalTokens, historyLength, agentSafetyLevel, cycleReturned, levelTrail>>

\* resetUiConfig
UiReset ==
    /\ SessionOp
    /\ UI' = DEFAULT_UI
    /\ UNCHANGED <<totalTokens, historyLength, agentSafetyLevel, cycleReturned, levelTrail>>

\* setUiMarkdown
UiSetMarkdown(enabled) ==
    /\ SessionOp
    /\ UI' = [UI EXCEPT !.markdown = enabled]
    /\ UNCHANGED <<totalTokens, historyLength, agentSafetyLevel, cycleReturned, levelTrail>>

\* setUiStreaming
UiSetStreaming(mode) ==
    /\ SessionOp
    /\ UI' = [UI EXCEPT !.streaming = mode]
    /\ UNCHANGED <<totalTokens, historyLength, agentSafetyLevel, cycleReturned, levelTrail>>

SessionNext ==
    \/ \E usage \in Usages : UsageChunk(usage)
    \/ SessionMessage
    \/ SessionClear
    \/ SessionCycle
    \/ \E width \in WidthArgs : UiWidthCommand(width)
    \/ UiReset
    \/ \E enabled \in BOOLEAN : UiSetMarkdown(enabled)
    \/ \E mode \in {"live", "final"} : UiSetStreaming(mode)

SessionSpec == SessionInit /\ [][SessionNext]_vars

\* ------------------------------------------------------------------------
\* The tool functions on a small filesystem (POSIX paths as lists of segments)
\* ------------------------------------------------------------------------

\* tool calls of one exploration
MaxToolCalls == 2

\* process.cwd(), from the root
workingDir == <<"w">>

\* the directories and the files of the exploration
Directories == { <<>>, <<"w">>, <<"w", "src">>, <<"w", ".ssh">>, <<"o">> }

Files ==
    { <<"w", "a.ts">>, <<"w", ".env">>, <<"w", "src", "secrets.yml">>,
      <<"w", ".ssh", "id_rsa">>, <<"o", "b.ts">> }

\* a path argument: absolute or relative, and its segments
PathArg(abs, segs) == [abs |-> abs, segs |-> segs]

PathArgs ==
    { PathArg(FALSE, <<"a.ts">>), PathArg(FALSE, <<".env">>), PathArg(FALSE, <<".">>),
      PathArg(FALSE, <<"src">>), PathArg(FALSE, <<"src", "secrets.yml">>),
      PathArg(FALSE, <<"src", "..", ".env">>), PathArg(FALSE, <<".ssh">>),
      PathArg(FALSE, <<"..", "o">>), PathArg(FALSE, <<"..", "o", "b.ts">>),
      PathArg(TRUE, <<"o", "b.ts">>), PathArg(FALSE, <<"new.ts">>) }

\* path.normalize on segments: '.' is dropped, '..' removes the segment before
RECURSIVE normalize(_, _)
normalize(stack, segs) ==
    IF segs = <<>> THEN stack
    ELSE LET seg == Head(segs)
             next == IF seg = "." THEN stack
                     ELSE IF seg = ".."
                          THEN SubSeq(stack, 1, Len(stack) - 1)
                          ELSE Append(stack, seg)
         IN  normalize(next, Tail(segs))

\* path.resolve(from, to)
resolve(from, to) == normalize(IF to.abs THEN <<>> ELSE from, to.segs)

\* length of the common prefix of two absolute paths
RECURSIVE commonLen(_, _)
commonLen(a, b) ==
    IF a = <<>> \/ b = <<>> \/ Head(a) # Head(b) THEN 0
    ELSE 1 + commonLen(Tail(a), Tail(b))

\* path.relative(from, to)
relative(from, to) ==
    LET c == commonLen(from, to)
    IN  [i \in 1..(Len(from) - c) |-> ".."] \o SubSeq(to, c + 1, Len(to))

\* path.basename
basename(abs) == IF abs = <<>> THEN "" ELSE abs[Len(abs)]

\* the names of the exploration that a pattern of SENSITIVE_FILE_PATTERNS
\* matches: /^\.env.../, /secrets?\.ya?ml$/, /id_rsa|.../
SensitiveNames == {".env", "secrets.yml", "id_rsa"}

\* valid when the resolved path is inside the working directory and its last
\* segment matches no sensitive pattern (a relative path is never absolute on
\* POSIX)
validatePath(inputPath) ==
    LET resolved == resolve(workingDir, inputPath)
        rel == relative(workingDir, resolved)
    IN  IF rel # <<>> /\ Head(rel) = ".."
        THEN [valid |-> FALSE, resolvedPath |-> resolved]
        ELSE IF basename(resolved) \in SensitiveNames
             THEN [valid |-> FALSE, resolvedPath |-> resolved]
             ELSE [valid |-> TRUE, resolvedPath |-> resolved]

\* one call of the fs module by a tool
Touch(tool, op, location) == [tool |-> tool, op |-> op, path |-> location]

\* the tools with one path argument, and what they do at the resolved path
PathToolOps ==
    [ read_file |-> "read", read_file_with_lines |-> "read", get_file_info |-> "read",
      write_file |-> "write", delete_file |-> "delete", edit_file |-> "write",
      edit_file_by_lines |-> "write", multi_edit_file |-> "write",
      insert_at_line |-> "write" ]

\* readFile, writeFile, deleteFile, getFileInfo and the edit tools: validatePath
\* first, an error string when it fails, else the fs calls on resolvedPath
pathTool(name, inputPath) ==
    LET pathCheck == validatePath(inputPath)
    IN  IF ~pathCheck.valid THEN {}
        ELSE { Touch(name, PathToolOps[name], pathCheck.resolvedPath) }

\* moveFile: both paths validated, then the recursive mkdir of the
\* destination's directory, which does nothing to a directory that exists,
\* and the rename
moveFile(source, destination) ==
    LET sourceCheck == validatePath(source)
        destCheck == validatePath(destination)
        dest == destCheck.resolvedPath
        destDir == SubSeq(dest, 1, Len(dest) - 1)
    IN  IF ~sourceCheck.valid \/ ~destCheck.valid THEN {}
        ELSE { Touch("move_file", "mkdir", d) : d \in {destDir} \ Directories }
             \cup { Touch("move_file", "rename", sourceCheck.resolvedPath),
                    Touch("move_file", "rename", dest) }

\* the entries fs.readdir(dir) returns
Entries(dir) ==
    { e \in Directories \cup Files :
        Len(e) = Len(dir) + 1 /\ SubSeq(e, 1, Len(dir)) = dir }

\* entry.name.startsWith('.') || entry.name === 'node_modules'
skipped(name) == name \in {".env", ".ssh", "node_modules"}

\* the directories the recursive walk reads: the start, and below it every
\* directory that is not skipped
RECURSIVE walk(_)
walk(dir) ==
    {dir} \cup UNION { walk(e) : e \in { e \in Entries(dir) \cap Directories :
                                            ~skipped(basename(e)) } }

\* listDirectory: fs.readdir on the directory as given (relative to the
\* working directory by the fs module), on its subdirectories when recursive,
\* fs.stat on the listed files when show_size; readdir of what is no directory
\* raises and the error string is returned
listDirectory(directory, recursive, show_size) ==
    LET dir == resolve(workingDir, directory)
        dirs == IF recursive THEN walk(dir) ELSE {dir}
    IN  IF dir \notin Directories THEN {}
        ELSE { Touch("list_directory", "readdir", d) : d \in dirs }
             \cup { Touch("list_directory", "stat", f) :
                      f \in { f \in Files : /\ show_size
                                            /\ ~skipped(basename(f))
                                            /\ \E d \in dirs : f \in Entries(d) } }

\* findFiles: fs.readdir on the directory and on every subdirectory below it
\* that is not skipped
findFiles(directory) ==
    LET dir == resolve(workingDir, directory)
    IN  IF dir \notin Directories THEN {}
        ELSE { Touch("find_files", "readdir", d) : d \in walk(dir) }

\* searchFiles: the same walk, and fs.readFile on every file entry of the
\* directories read (a file is read whatever its name)
searchFiles(directory) ==
    LET dir == resolve(workingDir, directory)
    IN  IF dir \notin Directories THEN {}
        ELSE { Touch("search_files", "readdir", d) : d \in walk(dir) }
             \cup { Touch("search_files", "read", f) :
                      f \in { f \in Files : \E d \in walk(dir) : f \in Entries(d) } }

ToolsInit ==
    /\ InitAgent
    /\ safetyLevel = "full"
    /\ opsLeft = 0 /\ turnsLeft = 0 /\ richLeft = 0 /\ callsLeft = 0
    /\ RetryIdle /\ StreamIdle /\ TrimIdle /\ LiveIdle /\ ReplIdle /\ SessionIdle
    /\ fsLog = {}
    /\ toolMode \in {"run", "plan"}
    /\ toolCallsLeft = MaxToolCalls

\* run() and plan() invoke availableTools[functionName] with the validated
\* arguments; plan() refuses a name that is not read-only before that
Dispatched(name) ==
    /\ toolCallsLeft > 0
    /\ name \in availableTools
    /\ toolMode = "plan" => name \in READ_ONLY_TOOL_NAMES
    /\ toolCallsLeft' = toolCallsLeft - 1
    /\ UNCHANGED toolMode
    /\ UNCHANGED toolFrame

\* plan() answers a tool that is not read-only without invoking it
PlanRefusesTool(name) ==
    /\ toolCallsLeft > 0
    /\ toolMode = "plan"
    /\ name \in availableTools \ READ_ONLY_TOOL_NAMES
    /\ toolCallsLeft' = toolCallsLeft - 1
    /\ UNCHANGED <<fsLog, toolMode>>
    /\ UNCHANGED toolFrame

CallPathTool(name, inputPath) ==
    /\ Dispatched(name)
    /\ fsLog' = fsLog \cup pathTool(name, inputPath)

CallMoveFile(source, destination) ==
    /\ Dispatched("move_file")
    /\ fsLog' = fsLog \cup moveFile(source, destination)

CallListDirectory(directory, recursive, show_size) ==
    /\ Dispatched("list_directory")
    /\ fsLog' = fsLog \cup listDirectory(directory, recursive, show_size)

CallFindFiles(directory) ==
    /\ Dispatched("find_files")
    /\ fsLog' = fsLog \cup findFiles(directory)

CallSearchFiles(directory) ==
    /\ Dispatched("search_files")
    /\ fsLog' = fsLog \cup searchFiles(directory)

ToolsNext ==
    \/ \E name \in availableTools : PlanRefusesTool(name)
    \/ \E name \in DOMAIN PathToolOps, p \in PathArgs : CallPathTool(name, p)
    \/ \E source, destination \in PathArgs : CallMoveFile(source, destination)
    \/ \E p \in PathArgs, recursive, show_size \in BOOLEAN :
          CallListDirectory(p, recursive, show_size)
    \/ \E p \in PathArgs : CallFindFiles(p)
    \/ \E p \in PathArgs : CallSearchFiles(p)

ToolsSpec == ToolsInit /\ [][ToolsNext]_vars

\* ------------------------------------------------------------------------
\* Vocabulary of the properties
\* ------------------------------------------------------------------------

\* the safety tiers as the documentation lists them
CriticalTier == {"delete_file", "execute_command"}

DangerousTier ==
    {"write_file", "move_file", "edit_file", "edit_file_by_lines",
     "multi_edit_file", "insert_at_line"}

AllToolNames == toolSchemas \cup availableTools \cup ModelToolNames \cup {"ask_user"}

\* the confirmation table of the documentation
ConfirmationRequired(level, name) ==
    \/ level = "full" /\ name \in DangerousTier \cup CriticalTier
    \/ level = "delete-only" /\ name \in CriticalTier

\* the typed lines that read y or yes once trimmed and lower-cased
ApprovingAnswers ==
    { <<"y">>, <<"Y">>, <<"y", "e", "s">>, <<" ", "Y", "E", "S", " ">> }

\* the tools that only read
ReadOnlyTier ==
    {"read_file", "read_file_with_lines", "list_directory", "find_files",
     "search_files", "get_file_info", "get_current_directory"}

\* the planning texts that carry a plan marker
MarkedPlanTexts == { <<"EXECUTION", "PLAN", "a">>, <<"b", "Steps:">> }

Last(seq) == seq[Len(seq)]

\* a tool function has been called and has not settled yet
ToolInFlight == pc \in {"exec", "plan_exec"}

\* the result of the current call is the last message of the list
ResultRecorded(list, call, content) ==
    /\ list # <<>>
    /\ Last(list) = ToolMsg(call.id, call.name, content)

\* ------------------------------------------------------------------------
\* C1
\* ------------------------------------------------------------------------

\* C1: in a run (started by the user or by executePlan) a tool that requires
\* confirmation under the current safety level is in flight only if the
\* confirmation prompt for that very call was answered affirmatively; planning
\* never has such a tool in flight.
C1_ConfirmedBeforeInvoke ==
    /\ (pc = "exec" /\ ConfirmationRequired(safetyLevel, CurrentCall.name))
          => confirmed = CurrentCall.id
    /\ pc = "plan_exec" => ~ConfirmationRequired(safetyLevel, CurrentCall.name)

C1_Witness ==
    /\ pc = "exec"
    /\ viaPlan
    /\ safetyLevel = "full"
    /\ CurrentCall.name = "write_file"
    /\ confirmed = CurrentCall.id

\* ------------------------------------------------------------------------
\* C2
\* ------------------------------------------------------------------------

\* C2: the confirmation decision depends on (safetyLevel, toolName) only and
\* follows the table: a prompt is pending exactly for calls the table lists,
\* a call reaches its tool without prompt exactly when the table does not list
\* it, whatever the step, the history and the earlier answers; and the decision
\* function agrees with the table on every tool name.
C2_DecisionIsTable ==
    /\ pc = "confirm" => ConfirmationRequired(safetyLevel, CurrentCall.name)
    /\ (pc = "exec" /\ confirmed = NoId)
          => ~ConfirmationRequired(safetyLevel, CurrentCall.name)
    /\ \A level \in SafetyLevels, name \in AllToolNames :
          needsConfirmation(level, name) <=> ConfirmationRequired(level, name)

C2_Witness ==
    /\ pc = "exec"
    /\ safetyLevel = "delete-only"
    /\ CurrentCall.name = "write_file"
    /\ confirmed = NoId
    /\ Len(conversationHistory) > 3

\* ------------------------------------------------------------------------
\* C3
\* ------------------------------------------------------------------------

\* the denied call got the refusal text and was not invoked, nothing was thrown
DeniedOutcome ==
    /\ pc' # "exec"
    /\ currentState' # "error"
    /\ \/ ResultRecorded(messages', CurrentCall, DENIED)
       \/ pc' = "idle" /\ ResultRecorded(conversationHistory', CurrentCall, DENIED)

\* C3 as stated: only y / yes approves; after any other answer the tool is not
\* invoked, nothing is thrown, the result is the refusal text and the run goes
\* on to the next tool call or loop iteration instead of terminating.
C3_Original ==
    [][\A a \in Answers :
          ConfirmAnswer(a) =>
             IF a \in ApprovingAnswers
             THEN pc' = "exec" /\ confirmed' = CurrentCall.id
             ELSE /\ DeniedOutcome
                  /\ pc' \in {"tool", "request", "askContinue"}]_vars

\* C3 amended: as C3, except that after a denial of the last call of a batch
\* in which a task_complete call was processed the run ends as complete;
\* otherwise it goes on to the next call or loop iteration.
C3_DenialContinues ==
    [][\A a \in Answers :
          ConfirmAnswer(a) =>
             IF a \in ApprovingAnswers
             THEN pc' = "exec" /\ confirmed' = CurrentCall.id
             ELSE /\ DeniedOutcome
                  /\ IF idx < Len(toolCalls)
                     THEN pc' = "tool" /\ idx' = idx + 1
                     ELSE IF completed
                     THEN pc' = "idle" /\ currentState' = "complete"
                     ELSE pc' \in {"request", "askContinue"}]_vars

\* a denial was recorded and the run went on to the next model request
C3_Witness ==
    /\ pc = "request"
    /\ conversationHistory # <<>>
    /\ Last(conversationHistory).role = "tool"
    /\ Last(conversationHistory).content = DENIED
    /\ Last(conversationHistory).name = "delete_file"

\* ------------------------------------------------------------------------
\* C4
\* ------------------------------------------------------------------------

\* C4: during plan() only read-only tools are ever in flight; a call naming
\* any other tool gets the planning-mode error as its result and the loop goes
\* on with the next call of the batch (after the last one, with the next
\* planning step).
C4_PlanReadOnly ==
    /\ [](pc = "plan_exec" => CurrentCall.name \in ReadOnlyTier)
    /\ [][(pc = "plan_tool" /\ CurrentCall.name \notin ReadOnlyTier) =>
             /\ ResultRecorded(messages', CurrentCall, PLAN_BLOCKED) \/ pc' = "idle"
             /\ pc' # "plan_exec"
             /\ currentState' # "error"
             /\ IF idx < Len(toolCalls)
                THEN pc' = "plan_tool" /\ idx' = idx + 1
                ELSE pc' \in {"plan_request", "idle"}]_vars

\* a blocked call was answered and the next call of the batch is reached
C4_Witness ==
    /\ pc = "plan_exec"
    /\ idx = 2
    /\ toolCalls[1].name = "delete_file"
    /\ messages[Len(messages)].content = PLAN_BLOCKED

\* ------------------------------------------------------------------------
\* C5
\* ------------------------------------------------------------------------

\* C5: while a run started by executePlan is active no plan is pending, and a
\* pending plan is never one whose execution has already been started.
C5_PlanConsumedOnce ==
    /\ viaPlan => ~hasPendingPlan
    /\ hasPendingPlan => pendingPlanOrigin \notin executedPlans

\* the execution of a plan has failed and returned
C5_Witness ==
    /\ pc = "idle"
    /\ executedPlans # {}
    /\ currentState = "error"
    /\ ~hasPendingPlan

\* ------------------------------------------------------------------------
\* C6
\* ------------------------------------------------------------------------

\* C6: the stored plan, if any, was produced by the latest plan() call.
C6_LatestPlanOnly ==
    hasPendingPlan => pendingPlanOrigin = planCalls

\* a second plan() has replaced the plan of the first
C6_Witness ==
    /\ pc = "idle"
    /\ planCalls = 2
    /\ pendingPlanOrigin = 2
    /\ pendingPlanTask = Some(<<"t2">>)

\* ------------------------------------------------------------------------
\* C7
\* ------------------------------------------------------------------------

\* C7: when planning ends with a text turn, the plan is stored exactly when
\* the text carries a marker; then the stored plan is the whole text and the
\* stored task is the task plan() was given; otherwise nothing is stored.
C7_MarkerDecidesStore ==
    [][\A text \in PlanTexts :
          PlanModelText(text) =>
             IF text \in MarkedPlanTexts
             THEN pendingPlan' = Some(text) /\ pendingPlanTask' = task
             ELSE pendingPlan' = None /\ pendingPlanTask' = None]_vars

C7_Witness ==
    /\ pc = "idle"
    /\ pendingPlan = Some(<<"b", "Steps:">>)
    /\ pendingPlanTask = Some(<<"t1">>)

\* ------------------------------------------------------------------------
\* C8
\* ------------------------------------------------------------------------

\* the run returns in the complete state
RunCompletes == pc \in RunPcs /\ pc' = "idle" /\ currentState' = "complete"

TaskCompleteInTurn ==
    \E k \in 1..Len(toolCalls) : toolCalls[k].name = "task_complete"

\* the current call is task_complete and this step records a result for it
\* other than the parse error
TaskCompleteProcessed ==
    /\ pc = "tool"
    /\ CurrentCall.name = "task_complete"
    /\ Len(conversationHistory') = Len(conversationHistory) + 1
    /\ Last(conversationHistory').role = "tool"
    /\ Last(conversationHistory').content # PARSE_ERROR

C9_StepCeiling ==
    /\ [](requestsInRow <= maxSteps)
    /\ [](pc \in RunPcs => (pc = "askContinue" <=> currentStepInSession > maxSteps))
    /\ [][(pc \in RunPcs \ {"askContinue"} /\ pc' \in {"request", "askContinue"})
             => currentStepInSession' = currentStepInSession + 1]_vars
    /\ [][pc = "askContinue" =>
             \A a \in Answers :
                \/ IF a \in ApprovingAnswers
                   THEN pc' = "request" /\ currentStepInSession' = 1
                   ELSE pc' = "idle" /\ currentState' = currentState
                        /\ currentState' # "error"
                \/ ~AskContinue(a)]_vars

\* the user approved the continuation and the run went on to the ceiling again
C9_Witness ==
    /\ pc = "request"
    /\ currentStepInSession = maxSteps
    /\ Len(conversationHistory) > 2 * maxSteps

\* ------------------------------------------------------------------------
\* C10
\* ------------------------------------------------------------------------

\* the list ends with the assistant message of the turn followed by the
\* results of the calls before the current one, in call order
BatchPrefixRecorded(list) ==
    LET n == Len(list)
    IN  /\ n >= idx
        /\ list[n - idx + 1].role = "assistant"
        /\ list[n - idx + 1].tool_calls = toolCalls
        /\ \A k \in 1..(idx - 1) :
              /\ list[n - idx + 1 + k].role = "tool"
              /\ list[n - idx + 1 + k].tool_call_id = toolCalls[k].id

\* C10: while call k of a batch is validated, confirmed or running, the
\* results of calls 1..k-1 and no other are recorded, in call order, in the
\* history and in the outgoing list; the loop leaves the batch for the next
\* iteration only from the last call, with that call's result recorded last.
C10_BatchInOrder ==
    /\ [](pc \in {"tool", "confirm", "exec"} =>
             /\ BatchPrefixRecorded(conversationHistory)
             /\ BatchPrefixRecorded(messages))
    /\ [][(pc \in {"tool", "confirm", "exec"} /\ pc' \in {"request", "askContinue"}) =>
             /\ idx = Len(toolCalls)
             /\ Last(conversationHistory').role = "tool"
             /\ Last(conversationHistory').tool_call_id = CurrentCall.id
             /\ Last(messages').role = "tool"
             /\ Last(messages').tool_call_id = CurrentCall.id]_vars
    /\ [][(pc \in {"tool", "confirm", "exec"} /\ pc' = "tool") =>
             /\ idx' = idx + 1
             /\ Last(conversationHistory').tool_call_id = CurrentCall.id
             /\ Last(messages').tool_call_id = CurrentCall.id]_vars

\* the second call of a batch runs with the result of the first recorded
C10_Witness ==
    /\ pc = "exec"
    /\ idx = 2
    /\ Last(conversationHistory).role = "tool"
    /\ Last(conversationHistory).tool_call_id = toolCalls[1].id
    /\ Last(conversationHistory).content = ToolOk(toolCalls[1].name)

\* ------------------------------------------------------------------------
\* C11
\* ------------------------------------------------------------------------

\* the loop goes on after the current call: next call of the batch, next
\* iteration, or the regular end of a batch that carried task_complete
BatchGoesOn ==
    IF idx < Len(toolCalls)
    THEN pc' = "tool" /\ idx' = idx + 1
    ELSE \/ pc' \in {"request", "askContinue"}
         \/ pc' = "idle" /\ currentState' = "complete"

PlanBatchGoesOn ==
    IF idx < Len(toolCalls)
    THEN pc' = "plan_tool" /\ idx' = idx + 1
    ELSE pc' \in {"plan_request", "idle"}

\* C11: a call whose arguments parse as JSON but do not validate (or whose
\* tool has no schema) is not invoked, gets the validation error text as its
\* result, and the run (or the planning) goes on with the next call or turn.
C11_ValidationErrorIsResult ==
    /\ [][pc = "tool" =>
            \A k \in ArgKinds \ {"badjson"} :
               (~validateToolArgs(CurrentCall.name, k) /\ RunToolStep(k)) =>
                  /\ pc' \notin {"confirm", "exec"}
                  /\ currentState' # "error"
                  /\ \/ ResultRecorded(messages', CurrentCall,
                                       ValidationError(CurrentCall.name))
                     \/ pc' = "idle" /\ ResultRecorded(conversationHistory', CurrentCall,
                                                       ValidationError(CurrentCall.name))
                  /\ BatchGoesOn]_vars
    /\ [][(pc = "plan_tool" /\ CurrentCall.name \in ReadOnlyTier) =>
            \A k \in ArgKinds \ {"badjson"} :
               (~validateToolArgs(CurrentCall.name, k) /\ PlanToolStep(k)) =>
                  /\ pc' # "plan_exec"
                  /\ currentState' # "error"
                  /\ ResultRecorded(messages', CurrentCall,
                                    ValidationError(CurrentCall.name)) \/ pc' = "idle"
                  /\ PlanBatchGoesOn]_vars

\* ------------------------------------------------------------------------
\* C12
\* ------------------------------------------------------------------------

C13_ToolFailureIsResult ==
    /\ [][(pc = "exec" /\ ToolReturn(TRUE)) =>
            /\ currentState' # "error"
            /\ \/ ResultRecorded(messages', CurrentCall, ToolFailed)
               \/ pc' = "idle"
            /\ ResultRecorded(conversationHistory', CurrentCall, ToolFailed)
            /\ idx < Len(toolCalls) => toolCalls' = toolCalls
            /\ BatchGoesOn]_vars
    /\ [][(pc = "plan_exec" /\ PlanToolReturn(TRUE)) =>
            /\ currentState' # "error"
            /\ ResultRecorded(messages', CurrentCall, PlanToolFailed) \/ pc' = "idle"
            /\ idx < Len(toolCalls) => toolCalls' = toolCalls
            /\ PlanBatchGoesOn]_vars

\* a confirmed tool has thrown and the next model request is out
C13_Witness ==
    /\ pc = "request"
    /\ safetyLevel = "full"
    /\ Last(conversationHistory).role = "tool"
    /\ Last(conversationHistory).name = "delete_file"
    /\ Last(conversationHistory).content = ToolFailed

\* ------------------------------------------------------------------------
\* C14
\* ------------------------------------------------------------------------

IsSuffix(s, t) ==
    Len(s) <= Len(t) /\ s = SubSeq(t, Len(t) - Len(s) + 1, Len(t))

\* the history file holds the history, cut to its newest messages
HistorySaved ==
    /\ IsSuffix(historyFile', conversationHistory')
    /\ historyFile' # <<>>
    /\ (/\ Len(conversationHistory') <= MAX_HISTORY_MESSAGES
        /\ estimateMessagesTokens(conversationHistory')
              <= MAX_CONTEXT_TOKENS - systemPromptReserve)
          => historyFile' = conversationHistory'

\* C14: when the model request fails for good the run ends in the error
\* state with no further request, the history is what it was before the
\* failing turn, and it is saved.
C14_RequestFailureKeepsHistory ==
    [][(pc = "request" /\ RunModelFails) =>
          /\ pc' = "idle"
          /\ currentState' = "error"
          /\ conversationHistory' = conversationHistory
          /\ HistorySaved]_vars

\* a request of a later turn has failed: the earlier turns are on file
C14_Witness ==
    /\ pc = "idle"
    /\ currentState = "error"
    /\ Len(conversationHistory) >= 3
    /\ Last(conversationHistory).role = "tool"
    /\ historyFile = conversationHistory

\* ------------------------------------------------------------------------
\* C15
\* ------------------------------------------------------------------------

\* C15: when the stream raises after deltas were received, the run ends in
\* the error state, nothing of the partial turn is appended to the history,
\* and no call of that stream is taken up.
C15_StreamFailureIsFatal ==
    [][pc = "request" =>
          \A t \in RunTexts, names \in Batches \cup {<<>>} :
             RunStreamFails(t, names) =>
                /\ pc' = "idle"
                /\ currentState' = "error"
                /\ conversationHistory' = conversationHistory
                /\ toolCalls' = <<>>
                /\ messages' = <<>>]_vars

\* the stream of a later turn raised after it had delivered a call
C15_Witness ==
    /\ pc = "idle"
    /\ currentState = "error"
    /\ nextId = 3
    /\ conversationHistory # <<>>
    /\ Last(conversationHistory).role = "tool"
    /\ Last(conversationHistory).tool_call_id = 1

\* ------------------------------------------------------------------------
\* C16
\* ------------------------------------------------------------------------

\* the statuses the documentation names as retried
RetriedStatuses == {429, 500, 502, 503}

\* C16: at most three attempts; a further attempt only after a failure with
\* status 429 or 5xx and a delay of 1000 ms, then 2000 ms; any other error and
\* the third failure are rethrown as they were caught, with no delay after
\* them; a success returns at once.
C16_RetryPolicy ==
    /\ Len(caught) <= 3
    /\ retryPc = "calling" => (retryIndex < 3 /\ Len(caught) = retryIndex)
    /\ \A k \in 1..(Len(caught) - 1) : caught[k].status \in RetriedStatuses
    /\ Len(delays) <= 2
    /\ \A k \in 1..Len(delays) : delays[k] = IF k = 1 THEN 1000 ELSE 2000
    /\ retryPc = "waiting" =>
          /\ Len(caught) < 3
          /\ Last(caught).status \in RetriedStatuses
          /\ Len(delays) = Len(caught)
    /\ retryPc = "thrown" =>
          /\ rethrown = Some(Last(caught))
          /\ Len(caught) = 3 \/ Last(caught).status \notin RetriedStatuses
          /\ Len(delays) = Len(caught) - 1
    /\ retryPc = "returned" =>
          /\ rethrown = None
          /\ Len(delays) = Len(caught)

\* the third attempt has failed with a retryable status and was rethrown
C16_Witness ==
    /\ retryPc = "thrown"
    /\ Len(caught) = 3
    /\ delays = <<1000, 2000>>
    /\ rethrown = Some([status |-> 503, attempt |-> 3])

\* ------------------------------------------------------------------------
\* C17
\* ------------------------------------------------------------------------

\* all tool-call deltas of a stream, in arrival order
RECURSIVE AllDeltas(_)
AllDeltas(stream) ==
    IF stream = <<>> THEN <<>>
    ELSE Head(stream).tool_calls \o AllDeltas(Tail(stream))

\* the whole id, name and arguments of an index: its pieces in arrival order
RECURSIVE WholeCall(_, _)
WholeCall(ds, index) ==
    IF ds = <<>> THEN EmptyToolCall
    ELSE LET rest == WholeCall(Tail(ds), index)
             d == Head(ds)
         IN  IF d.index = index
             THEN [id |-> d.id \o rest.id, name |-> d.name \o rest.name,
                   arguments |-> d.arguments \o rest.arguments]
             ELSE rest

RECURSIVE WholeContent(_)
WholeContent(stream) ==
    IF stream = <<>> THEN <<>>
    ELSE Head(stream).content \o WholeContent(Tail(stream))

\* C17: however the id, name and arguments of a call are cut into deltas and
\* spread over chunks, between text and between deltas of other indices, the
\* assembled call carries the whole id, name and arguments, and the text is
\* the whole text.
C17_AssemblyIgnoresCutting ==
    streamPc = "ended" =>
       LET ds == AllDeltas(streamInput)
       IN  /\ \A k \in 1..Len(streamToolCalls) :
                 streamToolCalls[k] = WholeCall(ds, k - 1)
           /\ \A j \in 1..Len(ds) :
                 (ds[j].index # NoIndex /\ WholeCall(ds, ds[j].index) # EmptyToolCall)
                    => ds[j].index < Len(streamToolCalls)
           /\ fullContent = WholeContent(streamInput)

\* the arguments of call 0 arrived in two pieces around a delta of call 1
C17_Witness ==
    /\ streamPc = "ended"
    /\ Len(streamInput) = 3
    /\ streamToolCalls =
          << [id |-> <<"c">>, name |-> <<"f">>, arguments |-> <<"{", "}">>],
             [id |-> <<"c">>, name |-> <<"f">>, arguments |-> <<>>] >>

\* ------------------------------------------------------------------------
\* C18
\* ------------------------------------------------------------------------

IndicesSeen(ds) == { ds[j].index : j \in 1..Len(ds) } \ {NoIndex}

\* the k-th smallest member of a set of numbers
NthSmallest(S, k) == CHOOSE i \in S : Cardinality({ j \in S : j < i }) = k - 1

\* C18: whatever the order in which indices first appear, the pass ends
\* with exactly one call per index seen, in index order, each holding the
\* pieces of its index.
C18_OneCallPerIndexSeen ==
    /\ streamPc # "raised"
    /\ streamPc = "ended" =>
          LET ds == AllDeltas(streamInput)
              seen == IndicesSeen(ds)
          IN  /\ Len(streamToolCalls) = Cardinality(seen)
              /\ \A k \in 1..Cardinality(seen) :
                    streamToolCalls[k] = WholeCall(ds, NthSmallest(seen, k))

\* ------------------------------------------------------------------------
\* C19
\* ------------------------------------------------------------------------

\* the budget left for the conversation
AvailableTokens == MAX_CONTEXT_TOKENS - systemPromptReserve

\* C19: whenever a model request is out, first or later of a run, the list
\* sent, without the system prompt at its head, is within the budget.
C19_BudgetOnEveryRequest ==
    pc = "request" => estimateMessagesTokens(Tail(messages)) <= AvailableTokens

\* ------------------------------------------------------------------------
\* C20
\* ------------------------------------------------------------------------

\* C20: for a history over the budget, trimming returns its newest messages
\* and either they fit the budget or exactly one message is left.
C20_TrimFitsOrOneLeft ==
    (trimPc = "returned" /\ estimateMessagesTokens(trimInput) > AvailableTokens) =>
       /\ IsSuffix(trimOutput, trimInput)
       /\ \/ estimateMessagesTokens(trimOutput) <= AvailableTokens
          \/ Len(trimOutput) = 1

\* ------------------------------------------------------------------------
\* C21
\* ------------------------------------------------------------------------

\* the estimate of a list is within the budget left for the conversation
Fits(msgs) == estimateMessagesTokens(msgs) <= AvailableTokens

\* C21: trimming returns a history that already fits unchanged, and the
\* in-memory history then stays as it was, also when that history is what an
\* earlier trimming left; for a non-empty history it returns a non-empty
\* suffix, the kept messages in their order.
C21_TrimKeepsFittingAndNeverEmpties ==
    trimPc = "returned" =>
       /\ Fits(trimInput) => trimOutput = trimInput /\ trimHistory = trimInput
       /\ trimInput # <<>> => trimOutput # <<>> /\ IsSuffix(trimOutput, trimInput)

\* an earlier call removed messages, and the call on what it left, which
\* fits, has returned
C21_Witness ==
    /\ trimPc = "returned"
    /\ trimRemoved > 0
    /\ trimInput # <<>>
    /\ Fits(trimInput)
    /\ trimOutput = trimInput

\* ------------------------------------------------------------------------
\* C22
\* ------------------------------------------------------------------------

\* the renderer has been started in this turn
RendererStarted == streamStarted /\ uiStreaming = "live" /\ isTTY

\* C22: once the stream of the turn is over (first tool-call delta, end of
\* the turn, failure), no redraw timer is pending, no redraw has happened
\* since, and a renderer that was started has done its one final flush.
C22_NoRedrawAfterStreamEnd ==
    StreamOver =>
       /\ ~live.scheduled /\ live.timers = <<>>
       /\ lateRedraws = 0
       /\ RendererStarted => finalFlushes = 1

\* ------------------------------------------------------------------------
\* C23
\* ------------------------------------------------------------------------

\* C23: when the process has ended through the shutdown path, the history
\* was written and input closed, and no model request or tool execution was
\* in flight at that moment.
C23_ShutdownWaitsForStep ==
    processExited => shutdownSaved /\ rlClosed /\ abortedStep = "none"

\* ------------------------------------------------------------------------
\* C24
\* ------------------------------------------------------------------------

ToolCallsPresent(list) ==
    \A i \in 1..Len(list) :
       list[i].role = "tool" =>
          \E j \in 1..(i - 1) :
             /\ list[j].role = "assistant"
             /\ \E k \in 1..Len(list[j].tool_calls) :
                   list[j].tool_calls[k].id = list[i].tool_call_id

\* C25: when every tool message of the history has its tool call before it,
\* the same is true of the history after trimming, of the list sent, and of
\* the history as saveHistory writes it.
C25_ToolMessageHasItsCall ==
    (trimPc = "returned" /\ ToolCallsPresent(trimInput)) =>
       /\ ToolCallsPresent(trimOutput)
       /\ ToolCallsPresent(trimHistory)
       /\ ToolCallsPresent(SaveImage(trimHistory))

\* ------------------------------------------------------------------------
\* C26
\* ------------------------------------------------------------------------

\* C26: the token counters are never negative; no operation of the session
\* lowers either of them except clearHistory, which sets both to 0 and
\* empties the history.
C26_TokenCountersOnlyGrow ==
    /\ [](totalTokens.input >= 0 /\ totalTokens.output >= 0)
    /\ [][\/ /\ totalTokens'.input >= totalTokens.input
              /\ totalTokens'.output >= totalTokens.output
           \/ /\ SessionClear
              /\ totalTokens' = NoTokens
              /\ historyLength' = 0]_vars

\* counters that had counted were set back to 0, with the history empty
C26_Witness ==
    /\ tokensBefore.input > 0
    /\ tokensBefore.output > 0
    /\ totalTokens = NoTokens
    /\ historyLength = 0

\* ------------------------------------------------------------------------
\* C27
\* ------------------------------------------------------------------------

\* the order full -> delete-only -> off -> full
CyclicSuccessor(level) ==
    CASE level = "full" -> "delete-only"
      [] level = "delete-only" -> "off"
      [] level = "off" -> "full"

\* C27: every cycleSafetyLevel call moves the level to its successor in the
\* order full -> delete-only -> off -> full and returns the new level; after
\* three calls the level is the one the session started with.
C27_SafetyLevelCycle ==
    /\ \A i \in 1..(Len(levelTrail) - 1) :
          levelTrail[i + 1] = CyclicSuccessor(levelTrail[i])
    /\ agentSafetyLevel = Last(levelTrail)
    /\ cycleReturned # None => cycleReturned = Some(agentSafetyLevel)
    /\ Len(levelTrail) >= 4 => levelTrail[4] = levelTrail[1]

\* three calls were made from the level off
C27_Witness ==
    /\ Len(levelTrail) = 4
    /\ levelTrail[1] = "off"
    /\ cycleReturned = Some("off")

\* ------------------------------------------------------------------------
\* C28
\* ------------------------------------------------------------------------

EndsWithReminder(msgs) == msgs # <<>> /\ Last(msgs) = SystemMsg(REMINDER)

\* C29 as stated: after a text turn that is no question the reminder is added
\* to the outgoing list and the next model request is out; after a non-empty
\* reply to a question the reply is a user turn of history and outgoing list
\* and the next model request is out.
C29_Original ==
    [][/\ pc = "request" =>
             \A t \in RunTexts :
                \/ ~appearsToAskQuestion(trim(t)) =>
                      /\ pc' = "request"
                      /\ EndsWithReminder(messages')
                \/ ~RunModelText(t)
       /\ pc = "askSimple" =>
             \A r \in Replies :
                \/ r # <<>> =>
                      /\ pc' = "request"
                      /\ conversationHistory' = Append(conversationHistory, UserMsg(r))
                      /\ Last(messages') = UserMsg(r)
                \/ ~AskSimple(r)]_vars

\* C29 amended: after a text turn that is no question the run is not over,
\* the reminder is the last message of the outgoing list (not of the
\* history) and the loop is at its next iteration: the model request, or the
\* continuation prompt when the step count has passed the ceiling.  After a
\* reply to a question that is not blank the reply is the last message of
\* history and outgoing list and the loop is at its next iteration likewise.
C29_TextTurnContinues ==
    [][/\ pc = "request" =>
             \A t \in RunTexts :
                \/ IF appearsToAskQuestion(trim(t))
                   THEN pc' = "askSimple"
                   ELSE /\ pc' = IF currentStepInSession' > maxSteps
                                 THEN "askContinue" ELSE "request"
                        /\ currentStepInSession' = currentStepInSession + 1
                        /\ EndsWithReminder(messages')
                        /\ conversationHistory' =
                              Append(conversationHistory, AssistantMsg(t, <<>>))
                \/ ~RunModelText(t)
       /\ pc = "askSimple" =>
             \A r \in Replies :
                \/ trim(r) # <<>> =>
                      /\ pc' = IF currentStepInSession' > maxSteps
                               THEN "askContinue" ELSE "request"
                      /\ currentStepInSession' = currentStepInSession + 1
                      /\ conversationHistory' = Append(conversationHistory, UserMsg(r))
                      /\ Last(messages') = UserMsg(r)
                \/ ~AskSimple(r)]_vars

\* a run that was reminded once and then got a reply to a question is at its
\* next model request
C29_Witness ==
    /\ pc = "request"
    /\ \E i \in 1..Len(messages) : \E j \in (i + 1)..Len(messages) :
          /\ messages[i] = SystemMsg(REMINDER)
          /\ messages[j] = UserMsg(<<"o", "k">>)
    /\ Last(conversationHistory) = UserMsg(<<"o", "k">>)

\* ------------------------------------------------------------------------
\* C30
\* ------------------------------------------------------------------------

\* the least whole number not below a / b, for a >= 0 and b > 0
LeastWholeAtLeast(a, b) ==
    CHOOSE n \in 0..(a + 1) : (n - 1) * b < a /\ a <= n * b

\* C30: what a call of trimToTokenLimit returns is its argument without the
\* oldest d messages, where d is 0 when the estimate fits and otherwise
\* min(ceil(excess / average tokens per message), count - 1), excess and
\* average taken from the argument as it came in; a history of 120 messages
\* of 1,000 tokens each (estimate 120,000, budget 100,000, reserve 1,500)
\* loses 22 messages and keeps 98.
C30_DroppedInOneStep ==
    trimPc = "returned" =>
        LET count     == Len(trimInput)
            estimated == estimateMessagesTokens(trimInput)
            available == MAX_CONTEXT_TOKENS - systemPromptReserve
            excess    == estimated - available
            dropped   == count - Len(trimOutput)
        IN  /\ dropped \in 0..count
            /\ trimOutput = SubSeq(trimInput, dropped + 1, count)
            /\ dropped = IF excess <= 0 THEN 0
                         ELSE Min(LeastWholeAtLeast(excess * count, estimated),
                                  count - 1)
            /\ trimInput = EvenHistory =>
                  /\ estimated = 120000
                  /\ available = 98500
                  /\ dropped = 22
                  /\ Len(trimOutput) = 98

\* the history of 120 even messages came back with 98
C30_Witness ==
    /\ trimPc = "returned"
    /\ trimInput = EvenHistory
    /\ Len(trimOutput) = 98
    /\ trimHistory = trimOutput

\* ------------------------------------------------------------------------
\* C31
\* ------------------------------------------------------------------------

\* C31: the renderer has at most one redraw timer pending; a redraw made by
\* the timer comes no sooner than throttleMs after the redraw before it; and
\* it shows the text accumulated by the time it fires.
C31_RedrawsThrottled ==
    /\ Len(live.timers) <= 1
    /\ \A i \in 1..Len(redraws) :
          redraws[i].by = "timer" =>
             /\ redraws[i].shown = redraws[i].text
             /\ i > 1 => redraws[i].at - redraws[i - 1].at >= throttleMs

\* the timer has redrawn twice: first a text that grew while the timer was
\* pending, then, a throttle interval later, the text of a later delta
C31_Witness ==
    /\ Len(redraws) >= 2
    /\ redraws[1].by = "timer" /\ redraws[1].shown = 2
    /\ redraws[2].by = "timer" /\ redraws[2].shown = 3
    /\ redraws[2].at - redraws[1].at = throttleMs

\* ------------------------------------------------------------------------
\* C32
\* ------------------------------------------------------------------------

\* every assistant message of the list that lists tool calls is followed by
\* one tool result per call, with the ids of the calls in call order, and by
\* no further tool result
CallsAnswered(list) ==
    \A p \in 1..Len(list) :
        (list[p].role = "assistant" /\ list[p].tool_calls # <<>>) =>
            LET n == Len(list[p].tool_calls)
            IN  /\ p + n <= Len(list)
                /\ \A k \in 1..n :
                      /\ list[p + k].role = "tool"
                      /\ list[p + k].tool_call_id = list[p].tool_calls[k].id
                /\ p + n < Len(list) => list[p + n + 1].role # "tool"

\* C32: when run() has returned, by whatever exit, every tool call of an
\* assistant message in the history has its one tool result after it, in
\* call order.
C32_EveryCallAnswered ==
    pc = "idle" => CallsAnswered(conversationHistory)

\* ------------------------------------------------------------------------
\* C33
\* ------------------------------------------------------------------------

\* the batch of the turn lists a task_complete call
BatchHasTaskComplete ==
    \E k \in 1..Len(toolCalls) : toolCalls[k].name = "task_complete"

\* C33: a run that ends while a batch with a task_complete call is being
\* processed ends from the last call of the batch, with the results of all
\* its calls recorded; and a task_complete call whose arguments are not
\* valid JSON does not set the completion flag, so that the run ends there
\* only if an earlier call of the batch has set it.
C33_CompletionAfterWholeBatch ==
    /\ [][(pc \in {"tool", "confirm", "exec"} /\ BatchHasTaskComplete /\ pc' = "idle") =>
             /\ idx = Len(toolCalls)
             /\ currentState' = "complete"
             /\ CallsAnswered(conversationHistory')]_vars
    /\ [][(pc = "tool" /\ CurrentCall.name = "task_complete") =>
             \/ ~completed => (~completed' /\ pc' # "idle")
             \/ ~RunToolStep("badjson")]_vars

\* ------------------------------------------------------------------------
\* C34
\* ------------------------------------------------------------------------

\* executePlan() called now would get past its guard and start a run
ExecutePlanWouldRun == Truthy(pendingPlan) /\ Truthy(pendingPlanTask)

\* C34: hasPendingPlan is true exactly when getPendingPlan() returns a plan
\* and exactly when executePlan() would start a run.
C34_PlanViewsAgree ==
    /\ hasPendingPlan <=> getPendingPlan # None
    /\ hasPendingPlan <=> ExecutePlanWouldRun

\* ------------------------------------------------------------------------
\* C35
\* ------------------------------------------------------------------------

\* C35: no step of plan(), from its call to its return, changes the history
\* in memory or the history file (nor the safety level or the readline
\* interface); what it changes besides its locals is the display state, the
\* pending plan and the counters.
C35_PlanLeavesHistory ==
    [][(pc \in PlanPcs \/ pc' \in PlanPcs) =>
          /\ conversationHistory' = conversationHistory
          /\ historyFile' = historyFile
          /\ safetyLevel' = safetyLevel
          /\ rl' = rl]_vars

\* a plan() has returned with a plan stored, in a session in which a run
\* has left a history in memory and in the file
C35_Witness ==
    /\ pc = "idle"
    /\ planCalls > 0
    /\ hasPendingPlan
    /\ currentState = "complete"
    /\ conversationHistory # <<>>
    /\ historyFile # <<>>

\* ------------------------------------------------------------------------
\* C36
\* ------------------------------------------------------------------------

\* how often the text of the turn is on the terminal: the printed copies of
\* it, and the panel of the renderer when that shows it
TimesShown ==
    Cardinality({i \in 1..Len(consoleLog) : consoleLog[i] = liveContent})
    + (IF screen = Some(liveContent) THEN 1 ELSE 0)

\* C36: when the stream of a turn has ended and no redraw is pending, a text
\* that is not empty is on the terminal exactly once, in either streaming
\* mode, on a terminal or not, whatever the order of the deltas was.
C36_TextShownOnce ==
    (livePc \in {"tools", "finished"} /\ live.timers = <<>> /\ liveContent > 0) =>
        TimesShown = 1

\* ------------------------------------------------------------------------
\* C37
\* ------------------------------------------------------------------------

\* C37: when every request, tool invocation and prompt returns and the
\* continuation prompt is declined, a run that has begun returns; until it
\* returns the history file is not written, and the step that returns writes
\* to it what saveHistory makes of the history.
C37_RunTerminatesAndSavesOnce ==
    /\ (pc \in RunPcs) ~> (pc = "idle")
    /\ [][(pc \in RunPcs) =>
            (IF pc' = "idle"
             THEN historyFile' = SaveImage(conversationHistory')
             ELSE historyFile' = historyFile)]_vars

\* the run has returned after the continuation prompt that followed as many
\* answered requests as the ceiling allows, tool calls and a reply among them
C37_Witness ==
    /\ pc = "idle"
    /\ turnsLeft = 0
    /\ callsLeft < MaxCalls
    /\ historyFile = SaveImage(conversationHistory)
    /\ historyFile # <<>>

\* ------------------------------------------------------------------------
\* C38
\* ------------------------------------------------------------------------

\* model requests the plan() of the exploration has had answered
PlanRequestsAnswered == PlanMaxSteps + 1 - turnsLeft

\* C38: a plan() that has begun returns; it has at most 10 model requests
\* answered, whatever the answers; it comes to no prompt of run(), the
\* continuation prompt included; and when it returns from the batch of a
\* turn, not by an error, that turn was the tenth and no plan is stored.
C38_PlanTerminates ==
    /\ (pc \in PlanPcs) ~> (pc = "idle")
    /\ [](PlanRequestsAnswered <= PlanMaxSteps)
    /\ [](pc \notin RunPcs)
    /\ [][(pc \in {"plan_tool", "plan_exec"} /\ pc' = "idle" /\ currentState' # "error") =>
             /\ PlanRequestsAnswered = PlanMaxSteps
             /\ currentStepInSession = PlanMaxSteps
             /\ ~hasPendingPlan']_vars

\* the plan() has returned after ten turns that all requested a tool
C38_Witness ==
    /\ pc = "idle"
    /\ planCalls = 1
    /\ PlanRequestsAnswered = PlanMaxSteps
    /\ callsLeft = 1
    /\ currentState # "error"
    /\ ~hasPendingPlan

\* ------------------------------------------------------------------------
\* C39
\* ------------------------------------------------------------------------

\* C39: an error the response stream raises after the request was accepted is
\* not retried, whatever its status: callWithRetry has not caught it and has
\* rethrown nothing, no delay follows it, no further request is created, it
\* is the only stream error of the turn, and the turn is over in the error
\* state.
C39_StreamErrorNotRetried ==
    /\ [](streamErrors # <<>> =>
            /\ Len(streamErrors) = 1
            /\ retryPc = "failed"
            /\ currentState = "error"
            /\ rethrown = None
            /\ \A k \in 1..Len(caught) : caught[k].status \in RetriedStatuses
            /\ Len(delays) = Len(caught))
    /\ [][retryPc # "failed"]_vars

\* the request was accepted at the second attempt and its stream has raised
\* an error of status 429
C39_Witness ==
    /\ streamErrors = <<429>>
    /\ retryPc = "failed"
    /\ currentState = "error"
    /\ Len(caught) = 1
    /\ delays = <<1000>>

\* ------------------------------------------------------------------------
\* C40
\* ------------------------------------------------------------------------

\* the location passes validatePath
ValidLocation(location) == validatePath(PathArg(TRUE, location)).valid

\* C40: whatever the tools have read, listed, searched or changed is a
\* location for which validatePath succeeds, in run and in planning mode.
C40_OnlyValidLocationsTouched ==
    \A t \in fsLog : ValidLocation(t.path)

====
